---- MODULE Spec2Model ----
(***************************************************************************)
(* The plugin / middleware / hook runtime of src/src/index.ts              *)
(* (createPluginSystem), as a state machine.                               *)
(*                                                                         *)
(* The System closes over one context object.  Every operation of the      *)
(* System is synchronous; the user functions it calls (a plugin's install, *)
(* a middleware, a hook) run on the same thread and may call back into the *)
(* System before they return.  The model keeps the JavaScript call stack   *)
(* explicitly: one frame per operation or user function in progress, and   *)
(* one step per call into, or return from, a user function.                *)
(***************************************************************************)
EXTENDS Integers, Sequences, FiniteSets, TLC

(***************************************************************************)
(* Bounds of the model.                                                    *)
(***************************************************************************)
\* longest middleware list registered from the top level
MaxMiddlewares == 3
\* longest hook bucket registered from the top level
MaxHooks == 2
\* initial data, hook arguments and extension values range over 0..MaxData
MaxData == 1
\* registrations of the other registries in the plugin-registry specification
MaxOther == 1
\* longest list of functions handed to pipe and compose
MaxFns == 3
\* largest retries option handed to retry
MaxRetries == 2
\* the clock runs from 0 to MaxTime
MaxTime == 5
\* largest wait handed to debounce and throttle
MaxWait == 2
\* most calls of a debounced or throttled function
MaxCalls == 3
\* longest argument list handed to a memoized function
MaxArgs == 1
\* state.count ranges over 0..MaxCount
MaxCount == 2
\* most reads of a computed value
MaxReads == 3
\* longest list of callbacks subscribed to an event from the top level
MaxSubs == 2

Data == 0..MaxData

(***************************************************************************)
(* The state.                                                              *)
(***************************************************************************)
VARIABLES
    plugins,      \* context.plugins: name -> Plugin
    middlewares,  \* context.middlewares: the registered middlewares, in order
    hooks,        \* context.hooks: name -> the hooks registered under it, in order
    options,      \* context.options
    slots,        \* context[key], for every key assigned after construction
    console,      \* console.warn's output since the current top-level call began
    stack,        \* the call stack: operations and user functions in progress
    ret,          \* the value the last completed inner call returned to its caller
    call,         \* the current (or last) top-level call and its outcome
    trace,        \* the user functions entered since the current top-level call began
    installs,     \* per plugin object: how often its install has been entered
    fns,          \* the functions handed to pipe / compose
    built,        \* which of pipe, compose, system.compose was called with fns
    composed,     \* the function that call returned
    applied,      \* the outcome of calling composed: its value, and the fns it applied
    retrier,      \* retry: the wrapped function's loop, and what the caller got
    now,          \* the clock: Date.now(), and the time timers are measured by
    timers,       \* setTimeout's pending timers, and the last timer id handed out
    debouncer,    \* debounce: the wrapper's closure, and the calls and executions so far
    throttler,    \* throttle: the wrapper's closure, and the calls and executions so far
    memo,         \* memoize: the wrapper's cache, and the calls and fn's invocations so far
    computedRef,  \* computed: the state its getter reads, its cache, and the reads so far
    bus           \* eventBus: listeners, the emit in progress, and what emits invoked

vars == <<plugins, middlewares, hooks, options, slots, console, stack, ret,
          call, trace, installs, fns, built, composed, applied, retrier, now,
          timers, debouncer, throttler, memo, computedRef, bus>>

(***************************************************************************)
(* Finite maps (Map, and the own properties of an object).                 *)
(***************************************************************************)
EmptyMap == [k \in {} |-> 0]

MapSet(m, k, v) == [x \in DOMAIN m \cup {k} |-> IF x = k THEN v ELSE m[x]]

(***************************************************************************)
(* Values passed to and returned by the operations.                        *)
(***************************************************************************)
Result(kind, value, list) == [kind |-> kind, value |-> value, list |-> list]

\* `return this`
This == Result("this", 0, <<>>)
\* a data value
Val(v) == Result("value", v, <<>>)
\* an array of data values
List(l) == Result("list", 0, l)
\* a Plugin object
PluginRef(p) == Result("plugin", p.id, <<>>)
\* undefined
Undefined == Result("undefined", 0, <<>>)

(***************************************************************************)
(* The user code handed to the System: plugins, and the bodies of their    *)
(* install functions.  A body is a straight-line script of calls into the  *)
(* System; it returns when the script ends.                                *)
(***************************************************************************)
Instr(i, s, n) == [i |-> i, s |-> s, n |-> n]

\* interface Plugin { name; install }, with the object's identity
Plugin(id, name, install) == [id |-> id, name |-> name, install |-> install]

\* Two plugin objects share the name "a", and two the name "d".
Plugins ==
    { Plugin(1, "a", "extendOpt"), Plugin(2, "a", "noop"),
      Plugin(3, "b", "reuse"), Plugin(4, "c", "useDep"),
      Plugin(5, "d", "throws"), Plugin(6, "d", "noop"),
      Plugin(7, "e", "useThrows"), Plugin(8, "logger", "contextHook") }

PluginById(id) == CHOOSE p \in Plugins : p.id = id

PluginNames == {p.name : p \in Plugins}

\* the ...options of use(plugin, ...options)
OptionLists == {<<>>, <<1>>}

\* install(app, ...options) { ... }
InstallBody(kind) ==
    CASE kind = "noop" -> <<>>
      \* system.extend('log', options.length > 0 ? options[0] : 0)
      [] kind = "extendOpt" -> <<Instr("extendOpt", "log", 0)>>
      \* system.use(<this plugin>)
      [] kind = "reuse" -> <<Instr("useSelf", "", 0)>>
      \* system.use(<plugin 1>)
      [] kind = "useDep" -> <<Instr("use", "", 1)>>
      \* system.extend('log', ...); system.useMiddleware(pass); throw error
      [] kind = "throws" -> <<Instr("extendOpt", "log", 0), Instr("useMiddleware", "pass", 0),
                              Instr("throw", "install error", 0)>>
      \* system.use(<plugin 5>)
      [] kind = "useThrows" -> <<Instr("use", "", 5)>>
      \* context.hook('before', cfg => cfg + 1)
      [] kind = "contextHook" -> <<Instr("contextCall", "hook", 0)>>

(***************************************************************************)
(* Stack frames, trace events and the record of the top-level call.        *)
(***************************************************************************)
Frame(op) ==
    [op |-> op, plugin |-> 0, fn |-> "", pc |-> 1, idx |-> 0, len |-> 0,
     name |-> "", data |-> 0, args |-> <<>>, out |-> <<>>, snap |-> <<>>]

Event(ev, plugin, fn, idx, data, args) ==
    [ev |-> ev, plugin |-> plugin, fn |-> fn, idx |-> idx, data |-> data, args |-> args]

Call(op, plugin, name, data, args, list) ==
    [op |-> op, plugin |-> plugin, name |-> name, data |-> data, args |-> args,
     list |-> list, status |-> "running", result |-> Undefined, error |-> ""]

NoCall == [Call("none", 0, "", 0, <<>>, <<>>) EXCEPT !.status = "returned"]

(***************************************************************************)
(* The state as one record, so that an operation is a function from the    *)
(* state in which it is called to the state in which it hands control on.  *)
(***************************************************************************)
State ==
    [plugins |-> plugins, middlewares |-> middlewares, hooks |-> hooks,
     options |-> options, slots |-> slots, console |-> console, stack |-> stack,
     ret |-> ret, call |-> call, trace |-> trace, installs |-> installs,
     fns |-> fns, built |-> built, composed |-> composed, applied |-> applied,
     retrier |-> retrier,
     now |-> now,
     timers |-> timers,
     debouncer |-> debouncer,
     throttler |-> throttler,
     memo |-> memo,
     computedRef |-> computedRef,
     bus |-> bus]

Commit(t) ==
    /\ plugins' = t.plugins
    /\ middlewares' = t.middlewares
    /\ hooks' = t.hooks
    /\ options' = t.options
    /\ slots' = t.slots
    /\ console' = t.console
    /\ stack' = t.stack
    /\ ret' = t.ret
    /\ call' = t.call
    /\ trace' = t.trace
    /\ installs' = t.installs
    /\ fns' = t.fns
    /\ built' = t.built
    /\ composed' = t.composed
    /\ applied' = t.applied
    /\ retrier' = t.retrier
    /\ now' = t.now
    /\ timers' = t.timers
    /\ debouncer' = t.debouncer
    /\ throttler' = t.throttler
    /\ memo' = t.memo
    /\ computedRef' = t.computedRef
    /\ bus' = t.bus

\* A top-level call begins: the stack is empty, and the bookkeeping of the
\* previous call is dropped.
Begin(c) == [State EXCEPT !.call = c, !.trace = <<>>, !.console = <<>>, !.ret = Undefined]

Top(s) == s.stack[Len(s.stack)]

Pop(s) == [s EXCEPT !.stack = SubSeq(@, 1, Len(@) - 1)]

Push(s, f) == [s EXCEPT !.stack = Append(@, f)]

SetTop(s, f) == [s EXCEPT !.stack[Len(s.stack)] = f]

\* An operation or user function returns v to its caller: to the frame below
\* it, or, with no frame left, to the caller of the top-level call.
Return(s, v) ==
    IF s.stack = <<>>
    THEN [s EXCEPT !.call.status = "returned", !.call.result = v, !.ret = v]
    ELSE [s EXCEPT !.ret = v]

\* An exception is thrown.  Nothing in the System catches: every frame is
\* unwound and the exception reaches the caller of the top-level call.
Throw(s, error) ==
    [s EXCEPT !.stack = <<>>, !.call.status = "threw", !.call.error = error,
              !.ret = Undefined]

\* console.warn(message)
Warn(s, message) == [s EXCEPT !.console = Append(@, message)]

(***************************************************************************)
(* The context object.                                                     *)
(*   const context = { plugins: new Map(), middlewares: [],                *)
(*                     hooks: new Map(), options }                         *)
(* Its four fields are ordinary own properties, so context[key] = value    *)
(* with one of their names replaces the field.  slots holds every property *)
(* assigned after construction; a field whose name is in slots has been    *)
(* replaced by that value, and the object built at construction is no      *)
(* longer reachable through the context.                                   *)
(***************************************************************************)
ReservedKeys == {"plugins", "middlewares", "hooks", "options"}

\* The context is an ordinary object: it inherits the properties of
\* Object.prototype.  toString is an inherited data property; __proto__ is an
\* inherited accessor, whose setter runs when context['__proto__'] is
\* assigned and ignores a value that is neither an object nor null.
ObjectPrototypeKeys == {"toString", "__proto__"}

ObjectPrototypeSetters == {"__proto__"}

\* context.<key> is still the Map or array built at construction
Intact(s, key) == key \notin DOMAIN s.slots

\* name in context
In(s, name) == name \in ReservedKeys \cup DOMAIN s.slots \cup ObjectPrototypeKeys

\* context[name] = value, for a number value
Assign(s, name, value) ==
    IF name \in ObjectPrototypeSetters
    THEN s
    ELSE [s EXCEPT !.slots = MapSet(@, name, value)]

\* context[name], for the properties map sl: the value assigned last, else
\* the field built at construction, else what Object.prototype gives
ContextGet(sl, name) ==
    IF name \in DOMAIN sl THEN Val(sl[name])
    ELSE IF name \in ReservedKeys THEN Result("field", 0, <<>>)
    ELSE IF name \in ObjectPrototypeKeys THEN Result("inherited", 0, <<>>)
    ELSE Undefined

(***************************************************************************)
(* Plugin registry: use, getPlugin.                                        *)
(***************************************************************************)
\* mutant: the duplicate check never finds the name
HasPluginNever(s, name) == FALSE

\* context.plugins.has(name)
HasPlugin(s, name) == name \in DOMAIN s.plugins

\* plugin.install(context, ...options): control passes to the install body;
\* the frame of use waits below it.
CallInstall(s, plugin, opts) ==
    LET useFrame == [Frame("use") EXCEPT !.plugin = plugin.id, !.args = opts]
        installFrame == [Frame("install") EXCEPT !.plugin = plugin.id, !.args = opts]
    IN  [s EXCEPT !.stack = @ \o <<useFrame, installFrame>>,
                  !.trace = Append(@, Event("install", plugin.id, "", 0, 0, opts)),
                  !.installs[plugin.id] = @ + 1]

\* mutant: the plugin is recorded and install is never called
RegisterWithoutInstall(s, plugin, opts) ==
    Return([s EXCEPT !.plugins = MapSet(@, plugin.name, plugin)], This)

\* mutant: install is called before the plugin is recorded
RegisterInstallFirst(s, plugin, opts) == CallInstall(s, plugin, opts)

\* context.plugins.set(plugin.name, plugin); plugin.install(context, ...options)
Register(s, plugin, opts) ==
    CallInstall([s EXCEPT !.plugins = MapSet(@, plugin.name, plugin)], plugin, opts)

use(s, plugin, opts) ==
    IF ~Intact(s, "plugins")
    THEN Throw(s, "TypeError")
    ELSE IF HasPlugin(s, plugin.name)
         THEN Return(Warn(s, <<"Plugin is already registered", plugin.name>>), This)
         ELSE Register(s, plugin, opts)

\* install has returned: use returns this
useReturn(s) == Return(Pop(s), This)

getPlugin(s, name) ==
    IF ~Intact(s, "plugins")
    THEN Throw(s, "TypeError")
    ELSE Return(s, IF name \in DOMAIN s.plugins THEN PluginRef(s.plugins[name])
                   ELSE Undefined)

(***************************************************************************)
(* Registration of middlewares and hooks, and context extension.           *)
(***************************************************************************)
\* mutant: the element is put in front
ArrayUnshift(array, element) == <<element>> \o array

\* array.push(element)
ArrayPush(array, element) == Append(array, element)

useMiddleware(s, middleware) ==
    IF ~Intact(s, "middlewares")
    THEN Throw(s, "TypeError")
    ELSE Return([s EXCEPT !.middlewares = ArrayPush(@, middleware)], This)

\* context.hooks.get(name), or [] for a name without a bucket
Bucket(s, name) == IF name \in DOMAIN s.hooks THEN s.hooks[name] ELSE <<>>

hook(s, name, h) ==
    IF ~Intact(s, "hooks")
    THEN Throw(s, "TypeError")
    ELSE Return([s EXCEPT !.hooks = MapSet(@, name, ArrayPush(Bucket(s, name), h))], This)

extend(s, name, value) ==
    LET warned == IF In(s, name) THEN Warn(s, <<"API already exists", name>>) ELSE s
    IN  Return(Assign(warned, name, value), This)

(***************************************************************************)
(* A step of an install body.                                              *)
(***************************************************************************)
\* mutant: use takes the plugin out of the registry when its install throws
InstallThrewUnregisters(s, plugin, error) ==
    Throw([s EXCEPT !.plugins = [n \in DOMAIN @ \ {plugin.name} |-> @[n]]], error)

\* plugin.install(context, ...options) throws error: use has no handler, and
\* neither has any caller below it
InstallThrew(s, plugin, error) == Throw(s, error)

\* context[name] is a function: of the properties the context can have here
\* (its four fields, numbers assigned by extend, what Object.prototype gives)
\* only the inherited toString is one
Callable(s, name) == name = "toString" /\ name \notin DOMAIN s.slots

\* context[name](...), called by an install body with the context it received
ContextCall(s, name) == IF Callable(s, name) THEN s ELSE Throw(s, "TypeError")

installStep(s) ==
    LET f == Top(s)
        self == PluginById(f.plugin)
        body == InstallBody(self.install)
    IN  IF f.pc > Len(body)
        THEN Return(Pop(s), Undefined)
        ELSE LET ins == body[f.pc]
                 s1 == SetTop(s, [f EXCEPT !.pc = @ + 1])
             IN  CASE ins.i = "extendOpt" ->
                        extend(s1, ins.s, IF Len(f.args) > 0 THEN f.args[1] ELSE 0)
                   [] ins.i = "useSelf" -> use(s1, self, <<>>)
                   [] ins.i = "use" -> use(s1, PluginById(ins.n), <<>>)
                   [] ins.i = "useMiddleware" -> useMiddleware(s1, ins.s)
                   [] ins.i = "throw" -> InstallThrew(s1, self, ins.s)
                   [] ins.i = "contextCall" -> ContextCall(s1, ins.s)

(***************************************************************************)
(* Middleware pipeline: applyMiddlewares, dispatch.                        *)
(*                                                                         *)
(* type Middleware = (data, next) => R.  The bodies handed to the System:  *)
(*   pass  (data, next) => next(data)                                      *)
(*   inc   (data, next) => next(data + 1)                                  *)
(*   wrap  (data, next) => next(data) + 10                                 *)
(*   stop  (data, next) => data + 100                                      *)
(*   reg   (data, next) => { if (!context.middlewares.includes(late))      *)
(*                             system.useMiddleware(late);                 *)
(*                           return next(data) }                           *)
(*   late  (data, next) => next(data + 1)                                  *)
(*   boom  (data, next) => { throw error }                                 *)
(*   back  (data, next) => { next(data); throw error }                     *)
(*   twice (data, next) => { next(data); return next(data + 1) }           *)
(***************************************************************************)
MiddlewareKinds == {"pass", "inc", "wrap", "stop", "reg", "late", "boom", "back"}

MiddlewareBody(kind) ==
    CASE kind = "pass" -> <<Instr("next", "", 0), Instr("return", "result", 0)>>
      [] kind = "inc" -> <<Instr("next", "", 1), Instr("return", "result", 0)>>
      [] kind = "wrap" -> <<Instr("next", "", 0), Instr("return", "result", 10)>>
      [] kind = "stop" -> <<Instr("return", "data", 100)>>
      [] kind = "reg" -> <<Instr("useMiddlewareOnce", "late", 0), Instr("next", "", 0),
                           Instr("return", "result", 0)>>
      [] kind = "late" -> <<Instr("next", "", 1), Instr("return", "result", 0)>>
      [] kind = "boom" -> <<Instr("throw", "middleware error", 0)>>
      [] kind = "back" -> <<Instr("next", "", 0), Instr("throw", "middleware error", 0)>>
      [] kind = "twice" -> <<Instr("next", "", 0), Instr("next", "", 1),
                             Instr("return", "result", 0)>>

Range(seq) == {seq[i] : i \in 1..Len(seq)}

\* const middlewares = [...context.middlewares]
Snapshot(s) == s.middlewares

\* mutant: the execution reads the live list instead of its copy
ChainLive(s, f) == s.middlewares

\* the array `middlewares` that dispatch and the continuations close over
Chain(s, f) == f.snap

\* middleware(data, (nextData) => dispatch(index + 1, nextData)): control
\* passes to the middleware body.
CallMiddleware(s, middleware, index, data, chain) ==
    LET f == [Frame("middleware") EXCEPT !.fn = middleware, !.idx = index,
                                         !.data = data, !.snap = chain]
    IN  [Push(s, f) EXCEPT !.trace = Append(@, Event("middleware", 0, middleware, index, data, <<>>))]

\* mutant: the end of the chain is tested one element early
DispatchEndsEarly(index, chain) == index + 1 >= Len(chain)

\* index >= middlewares.length
DispatchDone(index, chain) == index >= Len(chain)

\* mutant: the end of the chain returns nothing
EndOfChainUndefined(data) == Undefined

\* return data as unknown as R
EndOfChain(data) == Val(data)

\* function dispatch(index, data), with middlewares = chain
dispatch(s, chain, index, data) ==
    IF DispatchDone(index, chain)
    THEN Return(s, EndOfChain(data))
    ELSE CallMiddleware(s, chain[index + 1], index, data, chain)

applyMiddlewares(s, initialData) ==
    IF ~Intact(s, "middlewares")
    THEN Throw(s, "TypeError")
    ELSE LET f == [Frame("applyMiddlewares") EXCEPT !.snap = Snapshot(s), !.data = initialData]
             s1 == Push(s, f)
         IN  dispatch(s1, Chain(s1, f), 0, initialData)

\* mutant: dispatch is called and its value dropped
applyReturnUndefined(s) == Return(Pop(s), Undefined)

\* mutant: applyMiddlewares never returns
applyReturnNever(s) == s

\* return dispatch(0, initialData)
applyReturn(s) == Return(Pop(s), s.ret)

\* mutant: the continuation skips a middleware
NextIndexSkips(index) == index + 2

\* the index + 1 of (nextData) => dispatch(index + 1, nextData)
NextIndex(index) == index + 1

\* mutant: the continuation passes on the data the middleware received
NextDataStale(data, nextData) == data

\* the nextData of (nextData) => dispatch(index + 1, nextData)
NextData(data, nextData) == nextData

\* mutant: applyMiddlewares catches and returns the data it was called with
MiddlewareThrewCaught(s, error) ==
    [s EXCEPT !.stack = <<>>, !.call.status = "returned", !.call.result = Val(s.call.data)]

\* a middleware throws error: neither dispatch nor applyMiddlewares has a
\* handler
MiddlewareThrew(s, error) == Throw(s, error)

\* A step of a middleware body.
middlewareStep(s) ==
    LET f == Top(s)
        body == MiddlewareBody(f.fn)
    IN  IF f.pc > Len(body)
        THEN Return(Pop(s), Undefined)
        ELSE LET ins == body[f.pc]
                 s1 == SetTop(s, [f EXCEPT !.pc = @ + 1])
             IN  CASE ins.i = "next" ->
                        dispatch(s1, Chain(s1, f), NextIndex(f.idx),
                                 NextData(f.data, f.data + ins.n))
                   [] ins.i = "return" ->
                        Return(Pop(s), Val((IF ins.s = "result" THEN s.ret.value ELSE f.data)
                                           + ins.n))
                   [] ins.i = "useMiddlewareOnce" ->
                        IF ins.s \in Range(s.middlewares) THEN s1 ELSE useMiddleware(s1, ins.s)
                   [] ins.i = "throw" -> MiddlewareThrew(s1, ins.s)

(***************************************************************************)
(* Hook registry: callHook, callHookSerial.                                *)
(*                                                                         *)
(* type Hook = (...args) => any.  The bodies handed to the System:         *)
(*   inc   (x) => x + 1                                                    *)
(*   dbl   (x) => x * 2                                                    *)
(*   reg   (x) => { if (!(context.hooks.get('e') || []).includes(late))    *)
(*                    system.hook('e', late);                              *)
(*                  return x }                                             *)
(*   late  (x) => x + 3                                                    *)
(*   boom  (x) => { throw error }                                          *)
(***************************************************************************)
HookKinds == {"inc", "dbl", "reg", "late", "boom"}

HookNames == {"e", "f"}

HookBody(kind) ==
    CASE kind = "inc" -> <<Instr("return", "plus", 1)>>
      [] kind = "dbl" -> <<Instr("return", "times", 2)>>
      [] kind = "reg" -> <<Instr("hookOnce", "e", 0), Instr("return", "plus", 0)>>
      [] kind = "late" -> <<Instr("return", "plus", 3)>>
      [] kind = "boom" -> <<Instr("throw", "hook error", 0)>>

\* the ...args of callHook(name, ...args)
ArgLists == {<<x>> : x \in Data} \cup {<<0, 1>>}

\* hook(...): control passes to the hook body, called with args.
CallHookFn(s, h, index, args) ==
    LET f == [Frame("hookfn") EXCEPT !.fn = h, !.idx = index, !.args = args]
    IN  [Push(s, f) EXCEPT !.trace = Append(@, Event("hook", 0, h, index, 0, args))]

\* mutant: the loop tests the bucket's current length at every round
LoopBoundLive(s, f) == Len(Bucket(s, f.name))

\* map and reduce visit the indices below the length the array had when they
\* were called
LoopBound(s, f) == f.len

\* mutant: hook(args[0])
HookArgsFirst(args) == <<args[1]>>

\* hook(...args)
HookArgs(args) == args

\* hooks.map(hook => hook(...args)), at index f.idx, with the results so far
\* in f.out; f is the frame on top of s
mapLoop(s, f) ==
    IF f.idx < LoopBound(s, f)
    THEN CallHookFn(s, Bucket(s, f.name)[f.idx + 1], f.idx, HookArgs(f.args))
    ELSE Return(Pop(s), List(f.out))

callHook(s, name, args) ==
    IF ~Intact(s, "hooks")
    THEN Throw(s, "TypeError")
    ELSE LET f == [Frame("callHook") EXCEPT !.name = name, !.args = args,
                                            !.len = Len(Bucket(s, name))]
         IN  mapLoop(Push(s, f), f)

\* a hook has returned to map: its value is stored, the loop goes on
callHookResume(s) ==
    LET f == [Top(s) EXCEPT !.out = Append(@, s.ret.value), !.idx = @ + 1]
    IN  mapLoop(SetTop(s, f), f)

\* mutant: the reducer calls the hook and keeps its own argument
NextResultKept(result, returned) == result

\* (result, hook) => { return hook(result) }
NextResult(result, returned) == returned

\* hooks.reduce((result, hook) => hook(result), initialValue), at index
\* f.idx, with the accumulator in f.data; f is the frame on top of s
reduceLoop(s, f) ==
    IF f.idx < LoopBound(s, f)
    THEN CallHookFn(s, Bucket(s, f.name)[f.idx + 1], f.idx, <<f.data>>)
    ELSE Return(Pop(s), Val(f.data))

callHookSerial(s, name, initialValue) ==
    IF ~Intact(s, "hooks")
    THEN Throw(s, "TypeError")
    ELSE LET f == [Frame("callHookSerial") EXCEPT !.name = name, !.data = initialValue,
                                                  !.len = Len(Bucket(s, name))]
         IN  reduceLoop(Push(s, f), f)

\* a hook has returned to reduce
callHookSerialResume(s) ==
    LET f == [Top(s) EXCEPT !.data = NextResult(@, s.ret.value), !.idx = @ + 1]
    IN  reduceLoop(SetTop(s, f), f)

\* a hook throws error: neither map, reduce nor the operation has a handler
HookThrew(s, error) == Throw(s, error)

\* A step of a hook body.
hookFnStep(s) ==
    LET f == Top(s)
        body == HookBody(f.fn)
    IN  IF f.pc > Len(body)
        THEN Return(Pop(s), Undefined)
        ELSE LET ins == body[f.pc]
                 s1 == SetTop(s, [f EXCEPT !.pc = @ + 1])
             IN  CASE ins.i = "return" ->
                        Return(Pop(s), Val(IF ins.s = "times" THEN f.args[1] * ins.n
                                           ELSE f.args[1] + ins.n))
                   [] ins.i = "hookOnce" ->
                        IF "late" \in Range(Bucket(s, ins.s)) THEN s1
                        ELSE hook(s1, ins.s, "late")
                   [] ins.i = "throw" -> HookThrew(s1, ins.s)

(***************************************************************************)
(* Function composition: pipe, compose and the System's compose method.    *)
(*                                                                         *)
(* A function value is a tuple whose first element tells what it is:       *)
(*   <<"fn", i, kind>>     the i-th function handed to the call, a unary   *)
(*                         function on numbers (the doc example's add10,   *)
(*                         multiply2, subtract5)                           *)
(*   <<"identity">>        (arg) => arg                                    *)
(*   <<"pipe", a, b>>      (arg) => b(a(arg))                              *)
(*   <<"compose", a, b>>   (arg) => a(b(arg))                              *)
(***************************************************************************)
FnKinds == {"add10", "multiply2", "subtract5"}

Fn(i, kind) == <<"fn", i, kind>>

\* the argument lists ...fns of length n
FnListsOfLen(n) == {[i \in 1..n |-> Fn(i, kinds[i])] : kinds \in [1..n -> FnKinds]}

FnLists == UNION {FnListsOfLen(n) : n \in 0..MaxFns}

\* what a function handed to the call returns
FnValue(kind, x) ==
    CASE kind = "add10" -> x + 10
      [] kind = "multiply2" -> x * 2
      [] kind = "subtract5" -> x - 5

\* (arg) => arg
Identity == <<"identity">>

\* mutant: a single function is returned inside a wrapper
SingleWrapped(list) == <<"pipe", Identity, list[1]>>

\* return fns[0]
Single(list) == list[1]

\* mutant: pipe's reducer composes right to left
PipeReducerSwapped(a, b) == <<"compose", a, b>>

\* (a, b) => (arg) => b(a(arg))
PipeReducer(a, b) == <<"pipe", a, b>>

\* (a, b) => (arg) => a(b(arg))
ComposeReducer(a, b) == <<"compose", a, b>>

\* fns.reduce(reducer), without an initial value, over the first k elements:
\* the accumulator starts as fns[0] and the callback runs from index 1 on
RECURSIVE ReducePipe(_, _)
ReducePipe(list, k) ==
    IF k = 1 THEN list[1] ELSE PipeReducer(ReducePipe(list, k - 1), list[k])

RECURSIVE ReduceCompose(_, _)
ReduceCompose(list, k) ==
    IF k = 1 THEN list[1] ELSE ComposeReducer(ReduceCompose(list, k - 1), list[k])

pipe(list) ==
    IF Len(list) = 0 THEN Identity
    ELSE IF Len(list) = 1 THEN Single(list)
    ELSE ReducePipe(list, Len(list))

compose(list) ==
    IF Len(list) = 0 THEN Identity
    ELSE IF Len(list) = 1 THEN list[1]
    ELSE ReduceCompose(list, Len(list))

\* the compose method of the System
systemCompose(list) ==
    IF Len(list) = 0 THEN Identity
    ELSE IF Len(list) = 1 THEN list[1]
    ELSE ReduceCompose(list, Len(list))

\* the outcome of a call of a function value
Outcome(value, calls) == [value |-> value, calls |-> calls]

\* the composed function has not been called / has been called with arg
NotApplied == [done |-> FALSE, arg |-> 0, value |-> 0, calls |-> <<>>]

CalledWith(arg, outcome) ==
    [done |-> TRUE, arg |-> arg, value |-> outcome.value, calls |-> outcome.calls]

\* f(arg), for a function value f; calls lists the indices of the functions
\* applied so far, in the order of their application
RECURSIVE ApplyFn(_, _, _)
ApplyFn(f, arg, calls) ==
    CASE f[1] = "identity" -> Outcome(arg, calls)
      [] f[1] = "fn" -> Outcome(FnValue(f[3], arg), Append(calls, f[2]))
      [] f[1] = "pipe" ->
            LET inner == ApplyFn(f[2], arg, calls)
            IN  ApplyFn(f[3], inner.value, inner.calls)
      [] f[1] = "compose" ->
            LET inner == ApplyFn(f[3], arg, calls)
            IN  ApplyFn(f[2], inner.value, inner.calls)

(***************************************************************************)
(* retry (misc).                                                           *)
(*                                                                         *)
(*   retry(fn, { retries, delay }) returns an async function; nothing of   *)
(*   fn runs until that function is called.  When it is called it runs     *)
(*     for (attempt = 0; attempt <= retries; attempt++)                    *)
(*       try { return await fn() }                                         *)
(*       catch (error) { lastError = error;                                *)
(*                       if (attempt < retries) await sleep(delay) }       *)
(*     throw lastError                                                     *)
(* fn is given by a plan: whether the promise its k-th invocation returns  *)
(* resolves or rejects; that promise's value, or error, is k.  sleep(delay)*)
(* resolves after delay; the outcome does not depend on how long that is.  *)
(***************************************************************************)
\* the invocations of fn a plan covers
Attempts == 1..(MaxRetries + 2)

Plans == [Attempts -> {"resolve", "reject"}]

Pending == <<"pending">>

Resolved(v) == <<"resolved", v>>

Rejected(e) == <<"rejected", e>>

\* the function retry returns, as a value
TheFunction == <<"function">>

\* state: "none" before retry is called, "made" once it has returned,
\* "awaitFn" / "sleeping" while the returned function waits, "done" after
NewRetrier ==
    [state |-> "none", retries |-> 0, plan |-> [k \in Attempts |-> "resolve"],
     attempt |-> 0, lastError |-> 0, invocations |-> 0,
     settled |-> Pending, awaited |-> Pending]

\* retry(fn, { retries: n }): the closure is built, fn is not called
retry(r, n) == [r EXCEPT !.state = "made", !.retries = n]

\* await fn(): fn is invoked and the loop waits for its promise
InvokeFn(r) == [r EXCEPT !.invocations = @ + 1, !.state = "awaitFn"]

\* attempt++, then the loop's test
NextAttempt(r) ==
    LET a == r.attempt + 1
    IN  IF a <= r.retries
        THEN InvokeFn([r EXCEPT !.attempt = a])
        ELSE [r EXCEPT !.attempt = a, !.state = "done",
                       !.settled = Rejected(r.lastError)]

\* the returned function is called: attempt = 0, up to the first await
CallRetrying(r) == InvokeFn([r EXCEPT !.attempt = 0])

\* the promise of fn's latest invocation settles
FnSettled(r) ==
    IF r.plan[r.invocations] = "resolve"
    THEN [r EXCEPT !.state = "done", !.settled = Resolved(r.invocations)]
    ELSE LET c == [r EXCEPT !.lastError = r.invocations]
         IN  IF c.attempt < c.retries
             THEN [c EXCEPT !.state = "sleeping"]
             ELSE NextAttempt(c)

\* sleep(delay) resolves
sleep(r) == NextAttempt(r)

\* await applied to what retry returned: a function is not a thenable, so
\* the await yields the function itself
AwaitReturnValue(r) == [r EXCEPT !.awaited = TheFunction]

(***************************************************************************)
(* Time and timers.                                                        *)
(*                                                                         *)
(* now is the clock.  setTimeout(callback, delay) queues a timer due at    *)
(* now + delay and returns its id; a timer fires once the clock has        *)
(* reached its due time, and the clock does not pass a due timer.  At one  *)
(* instant a due timer and other code (another timer's callback, an event  *)
(* handler) run in either order.                                           *)
(***************************************************************************)
NoTimers == [lastId |-> 0, queue |-> {}]

Timer(id, due, args) == [id |-> id, due |-> due, args |-> args]

setTimeout(q, due, args) ==
    [lastId |-> q.lastId + 1,
     queue |-> q.queue \cup {Timer(q.lastId + 1, due, args)}]

\* clearTimeout(id): the mutation leaves the timer queued
clearTimeoutIgnored(q, id) == q

clearTimeout(q, id) == [q EXCEPT !.queue = {t \in @ : t.id # id}]

Due == {t \in timers.queue : t.due <= now}

(***************************************************************************)
(* debounce (misc).                                                        *)
(*                                                                         *)
(*   let timeout = null                                                    *)
(*   return function (...args) {                                           *)
(*     if (timeout) clearTimeout(timeout)                                  *)
(*     timeout = setTimeout(() => { fn.apply(context, args);               *)
(*                                  timeout = null }, wait) }              *)
(* timeout is 0 for null.  The k-th call of the wrapper passes k as its    *)
(* arguments.  log records, in order, the calls of the wrapper and the     *)
(* executions of fn, with their time and arguments.                        *)
(***************************************************************************)
LogEntry(kind, at, args) == [kind |-> kind, at |-> at, args |-> args]

NewDebouncer == [wait |-> 0, timeout |-> 0, calls |-> 0, log |-> <<>>]

\* the wrapper is called at time at
debounce(s, at) ==
    LET d == s.debouncer
        args == d.calls + 1
        cleared == IF d.timeout # 0 THEN clearTimeout(s.timers, d.timeout)
                                    ELSE s.timers
        queued == setTimeout(cleared, at + d.wait, args)
    IN  [s EXCEPT !.timers = queued,
                  !.debouncer = [d EXCEPT !.timeout = queued.lastId,
                                          !.calls = args,
                                          !.log = Append(@, LogEntry("call", at, args))]]

\* the timer's callback: fn.apply(context, args); timeout = null
debounceTimer(s, t, at) ==
    [s EXCEPT !.timers = clearTimeout(s.timers, t.id),
              !.debouncer = [s.debouncer EXCEPT
                                !.timeout = 0,
                                !.log = Append(@, LogEntry("run", at, t.args))]]

(***************************************************************************)
(* throttle (misc, and performance).                                       *)
(*                                                                         *)
(* misc:                                                                   *)
(*   let lastCallTime = 0                                                  *)
(*   return function (...args) {                                           *)
(*     const now = Date.now()                                              *)
(*     if (now - lastCallTime >= wait) { fn.apply(context, args);          *)
(*                                       lastCallTime = now } }            *)
(* performance:                                                            *)
(*   let lastCallTime = 0; let timer = null                                *)
(*   return function (...args) {                                           *)
(*     const now = Date.now()                                              *)
(*     const remaining = wait - (now - lastCallTime)                       *)
(*     if (remaining <= 0) {                                               *)
(*       if (timer) { clearTimeout(timer); timer = null }                  *)
(*       lastCallTime = now; fn.apply(this, args)                          *)
(*     } else if (!timer) {                                                *)
(*       timer = setTimeout(() => { lastCallTime = Date.now(); timer = null*)
(*                                  fn.apply(this, args) }, remaining) } } *)
(* from tells which of the two built the wrapper.  The k-th call of the    *)
(* wrapper passes k as its arguments; log is as for debounce.              *)
(***************************************************************************)
NewThrottler ==
    [from |-> "misc", wait |-> 0, lastCallTime |-> 0, timer |-> 0,
     calls |-> 0, log |-> <<>>]

\* fn.apply(context, args) at time at
Execute(th, at, args) == [th EXCEPT !.log = Append(@, LogEntry("run", at, args))]

\* the wrapper is called
Called(th, at) ==
    [th EXCEPT !.calls = @ + 1,
               !.log = Append(@, LogEntry("call", at, th.calls + 1))]

\* misc throttle's wrapper, called at time at
throttle(s, at) ==
    LET th == Called(s.throttler, at)
    IN  IF at - th.lastCallTime >= th.wait
        THEN [s EXCEPT !.throttler =
                 [Execute(th, at, th.calls) EXCEPT !.lastCallTime = at]]
        ELSE [s EXCEPT !.throttler = th]

\* performance throttle's wrapper, called at time at
performanceThrottle(s, at) ==
    LET th == Called(s.throttler, at)
        remaining == th.wait - (at - th.lastCallTime)
    IN  IF remaining <= 0
        THEN [s EXCEPT
                !.timers = IF th.timer # 0 THEN clearTimeout(@, th.timer) ELSE @,
                !.throttler = Execute([th EXCEPT !.timer = 0,
                                                 !.lastCallTime = at],
                                      at, th.calls)]
        ELSE IF th.timer = 0
        THEN LET queued == setTimeout(s.timers, at + remaining, th.calls)
             IN  [s EXCEPT !.timers = queued,
                           !.throttler = [th EXCEPT !.timer = queued.lastId]]
        ELSE [s EXCEPT !.throttler = th]

\* performance throttle's timer callback
throttleTimer(s, t, at) ==
    [s EXCEPT !.timers = clearTimeout(@, t.id),
              !.throttler = Execute([@ EXCEPT !.lastCallTime = at, !.timer = 0],
                                    at, t.args)]

(***************************************************************************)
(* memoize (misc; performance without a resolver is the same).             *)
(*                                                                         *)
(*   const cache = new Map()                                               *)
(*   return function (...args) {                                           *)
(*     const key = JSON.stringify(args)                                    *)
(*     if (cache.has(key)) return cache.get(key)                           *)
(*     const result = fn.apply(this, args)                                 *)
(*     cache.set(key, result)                                              *)
(*     return result }                                                     *)
(* An argument is one of the JavaScript values 1, "1", null and undefined, *)
(* written here as the strings of JsValues.  fn is (...args) => args, the  *)
(* function that tells any two argument lists apart.                       *)
(***************************************************************************)
JsValues == {"1", "'1'", "null", "undefined"}

MemoArgLists == UNION {[1..n -> JsValues] : n \in 0..MaxArgs}

\* JSON.stringify of an array element: undefined is written as null, a
\* string in double quotes
StringifyElement(v) ==
    CASE v = "undefined" -> "null"
      [] v = "'1'" -> "\"1\""
      [] OTHER -> v

\* JSON.stringify(args): the elements' texts between brackets and commas,
\* kept as the sequence of those texts
JSONStringify(args) == [i \in 1..Len(args) |-> StringifyElement(args[i])]

\* fn.apply(this, args)
MemoFn(args) == <<"result", args>>

NewMemo == [cache |-> EmptyMap, calls |-> <<>>, invoked |-> <<>>]

CacheHas(cache, key) == key \in DOMAIN cache

\* the wrapper is called with args
memoize(m, args) ==
    LET key == JSONStringify(args)
    IN  IF CacheHas(m.cache, key)
        THEN [m EXCEPT !.calls = Append(@, [args |-> args,
                                           returned |-> m.cache[key]])]
        ELSE LET result == MemoFn(args)
             IN  [cache |-> MapSet(m.cache, key, result),
                  invoked |-> Append(m.invoked, args),
                  calls |-> Append(m.calls, [args |-> args,
                                            returned |-> result])]

(***************************************************************************)
(* computed (reactive).                                                    *)
(*                                                                         *)
(*   let value; let dirty = true                                           *)
(*   value: { get() { if (dirty) { value = getter(); dirty = false }       *)
(*                    return value } }                                     *)
(* The getter is the doc example's () => state.count * 2.  value is        *)
(* undefined until the first read; it is not read before, and is 0 here.   *)
(* reads records, for every read of c.value, state.count at that time and  *)
(* what the read returned.                                                 *)
(***************************************************************************)
NewComputed == [count |-> 0, value |-> 0, dirty |-> TRUE, reads |-> <<>>]

\* () => state.count * 2
getter(c) == c.count * 2

\* state.count = v
SetStateCount(c, v) == [c EXCEPT !.count = v]

\* get value()
computed(c) ==
    LET fresh == IF c.dirty THEN [c EXCEPT !.value = getter(c), !.dirty = FALSE]
                            ELSE c
    IN  [fresh EXCEPT !.reads = Append(@, [count |-> c.count,
                                          returned |-> fresh.value])]

(***************************************************************************)
(* eventBus (reactive).                                                    *)
(*                                                                         *)
(*   const listeners = {}                                                  *)
(*   on(event, callback)  { if (!listeners[event]) listeners[event] = [];  *)
(*                          listeners[event].push(callback);               *)
(*                          return () => this.off(event, callback) }       *)
(*   off(event, callback) { if (listeners[event]) listeners[event] =       *)
(*                            listeners[event].filter(cb => cb !== callback) }*)
(*   emit(event, data)    { if (listeners[event])                          *)
(*                            listeners[event].forEach(cb => cb(data)) }   *)
(* listeners is a plain object: listeners[event] is an own property (an    *)
(* array), a property inherited from Object.prototype (truthy, without     *)
(* push, filter or forEach, so that calling them throws a TypeError), or   *)
(* undefined.  push changes the array in place, filter builds a new one;   *)
(* arrays are kept by identity: listeners maps an event to the id of its   *)
(* array, arrays maps the id to the elements.  forEach reads the length    *)
(* once and then visits the indices below it of the array it was called on.*)
(*                                                                         *)
(* The callbacks handed to the bus, which is always called as events.on(), *)
(* events.off(), events.emit():                                            *)
(*   1  plain    (data) => {}                                              *)
(*   2  remover  (data) => { events.off('change', plain) }                 *)
(*   3  adder    (data) => { if (!added) { added = true;                   *)
(*                                         events.on('change', late) } }   *)
(*   4  late     (data) => {}                                              *)
(* Nothing unsubscribes late, so added is true exactly when late is        *)
(* subscribed to 'change'.                                                 *)
(***************************************************************************)
BusEvents == {"change", "other", "toString"}

\* the callbacks subscribed to an event from the top level
CallbacksFor(event) == IF event = "change" THEN {1, 2, 3} ELSE {1}

NoEmit == [active |-> FALSE, array |-> 0, len |-> 0, k |-> 0]

\* emitted: the event of the latest emit, the callbacks subscribed to it and
\* the pairs off had been called for when the emit started, and the
\* callbacks the emit has invoked; removed: the pairs off was called for, and
\* on not since, each with the number of subscriptions that off removed;
\* lastOff: the latest call of off, and the subscriptions before it.
\* emitted and lastOff describe the latest calls only: they are forgotten at
\* the next call from the top level, lastOff also at the next on
NewBus ==
    [listeners |-> EmptyMap, arrays |-> EmptyMap, frame |-> NoEmit,
     threw |-> FALSE, removed |-> {},
     emitted |-> [event |-> "", atStart |-> <<>>, removedAtStart |-> {},
                  invoked |-> <<>>],
     lastOff |-> [event |-> "", callback |-> 0, before |-> EmptyMap]]

\* a call from the top level
Forget(b) == [b EXCEPT !.emitted = NewBus.emitted, !.lastOff = NewBus.lastOff]

\* listeners[event]
ListenersOf(b, event) ==
    IF event \in DOMAIN b.listeners THEN "array"
    ELSE IF event \in ObjectPrototypeKeys THEN "inherited"
    ELSE "undefined"

\* the elements of listeners[event], none when it is not an array
Subscribed(b, event) ==
    IF event \in DOMAIN b.listeners THEN b.arrays[b.listeners[event]] ELSE <<>>

\* the elements of every array of listeners
Subscriptions(b) == [e \in DOMAIN b.listeners |-> Subscribed(b, e)]

\* removed without the entries of the pair
NotRemoved(removed, event, callback) ==
    {r \in removed : r[1] # event \/ r[2] # callback}

CallbackBody(b, cb) ==
    CASE cb = 2 -> <<"off", "change", 1>>
      [] cb = 3 /\ \A i \in 1..Len(Subscribed(b, "change")) :
                      Subscribed(b, "change")[i] # 4 -> <<"on", "change", 4>>
      [] OTHER -> <<"return">>

BusTypeError(b) == [b EXCEPT !.threw = TRUE]

\* a new array
NewArray(b) ==
    CHOOSE i \in 1..(Cardinality(DOMAIN b.arrays) + 1) :
        /\ i \notin DOMAIN b.arrays
        /\ \A j \in 1..(i - 1) : j \in DOMAIN b.arrays

\* arrays no longer referenced are gone
Collect(b) ==
    LET live == {b.listeners[e] : e \in DOMAIN b.listeners}
                   \cup (IF b.frame.active THEN {b.frame.array} ELSE {})
    IN  [b EXCEPT !.arrays = [a \in live |-> b.arrays[a]]]

\* the mutation removes the first occurrence only
FilterFirst(seq, callback) ==
    IF \E i \in 1..Len(seq) : seq[i] = callback
    THEN LET first == CHOOSE i \in 1..Len(seq) :
                         /\ seq[i] = callback
                         /\ \A j \in 1..(i - 1) : seq[j] # callback
         IN  SubSeq(seq, 1, first - 1) \o SubSeq(seq, first + 1, Len(seq))
    ELSE seq

\* listeners[event].filter(cb => cb !== callback)
Filter(seq, callback) == SelectSeq(seq, LAMBDA cb : cb # callback)

on(b, event, callback) ==
    CASE ListenersOf(b, event) = "inherited" -> BusTypeError(b)
      [] OTHER ->
           LET made == IF ListenersOf(b, event) = "undefined"
                       THEN [b EXCEPT !.listeners = MapSet(@, event, NewArray(b)),
                                      !.arrays = MapSet(@, NewArray(b), <<>>)]
                       ELSE b
               a == made.listeners[event]
           IN  [made EXCEPT !.arrays[a] = Append(@, callback),
                            !.removed = NotRemoved(@, event, callback),
                            !.lastOff = NewBus.lastOff,
                            !.threw = FALSE]

off(b, event, callback) ==
    LET called == [b EXCEPT !.lastOff = [event |-> event, callback |-> callback,
                                         before |-> Subscriptions(b)]]
        gone(n) == NotRemoved(b.removed, event, callback)
                      \cup {<<event, callback, n>>}
    IN  CASE ListenersOf(b, event) = "inherited" -> BusTypeError(called)
          [] ListenersOf(b, event) = "undefined" ->
               [called EXCEPT !.removed = gone(0), !.threw = FALSE]
          [] OTHER ->
               LET old == Subscribed(b, event)
                   new == Filter(old, callback)
               IN  Collect([called EXCEPT
                               !.listeners[event] = NewArray(b),
                               !.arrays = MapSet(@, NewArray(b), new),
                               !.removed = gone(Len(old) - Len(new)),
                               !.threw = FALSE])

\* the mutation reads the array's length at every iteration
ForEachLengthLive(b, f) == Len(b.arrays[f.array])

\* forEach: the length read before the first iteration
ForEachLength(b, f) == f.len

emit(b, event) ==
    CASE ListenersOf(b, event) = "inherited" -> BusTypeError(b)
      [] OTHER ->
           LET started == [b EXCEPT
                              !.threw = FALSE,
                              !.emitted = [event |-> event,
                                           atStart |-> Subscribed(b, event),
                                           removedAtStart |-> b.removed,
                                           invoked |-> <<>>]]
           IN  IF Subscribed(b, event) = <<>>
               THEN started
               ELSE [started EXCEPT
                        !.frame = [active |-> TRUE, array |-> b.listeners[event],
                                   len |-> Len(Subscribed(b, event)), k |-> 1]]

\* one iteration of forEach: callback(data), with what the callback does,
\* and the end of the loop after the last one
emitStep(b) ==
    LET f == b.frame
        callback == b.arrays[f.array][f.k]
        body == CallbackBody(b, callback)
        entered == [b EXCEPT !.emitted.invoked = Append(@, callback)]
        ran == CASE body[1] = "off" -> off(entered, body[2], body[3])
                 [] body[1] = "on" -> on(entered, body[2], body[3])
                 [] OTHER -> entered
    IN  IF f.k + 1 <= ForEachLength(ran, f)
        THEN [ran EXCEPT !.frame.k = f.k + 1]
        ELSE Collect([ran EXCEPT !.frame = NoEmit])

(***************************************************************************)
(* Initial state: what createPluginSystem(options) returns.                *)
(***************************************************************************)
NoFns ==
    /\ fns = <<>>
    /\ built = ""
    /\ composed = Identity
    /\ applied = NotApplied

NewSystem ==
    /\ plugins = EmptyMap
    /\ middlewares = <<>>
    /\ hooks = EmptyMap
    /\ options = [debug |-> TRUE]
    /\ slots = EmptyMap
    /\ console = <<>>
    /\ stack = <<>>
    /\ ret = Undefined
    /\ call = NoCall
    /\ trace = <<>>
    /\ installs = [id \in {p.id : p \in Plugins} |-> 0]

\* the utilities outside the plugin system, but those in keep, are not in use
NoUtilities(keep) ==
    /\ IF "retrier" \in keep THEN TRUE ELSE retrier = NewRetrier
    /\ IF "now" \in keep THEN TRUE ELSE now = 0
    /\ IF "timers" \in keep THEN TRUE ELSE timers = NoTimers
    /\ IF "debouncer" \in keep THEN TRUE ELSE debouncer = NewDebouncer
    /\ IF "throttler" \in keep THEN TRUE ELSE throttler = NewThrottler
    /\ IF "memo" \in keep THEN TRUE ELSE memo = NewMemo
    /\ IF "computedRef" \in keep THEN TRUE ELSE computedRef = NewComputed
    /\ IF "bus" \in keep THEN TRUE ELSE bus = NewBus

Init == NewSystem /\ NoFns /\ NoUtilities({})

Idle == stack = <<>>

Running(op) == stack # <<>> /\ stack[Len(stack)].op = op

(***************************************************************************)
(* Actions: the calls made from the top level, and the steps of the user   *)
(* functions and of the operations waiting for them.                       *)
(***************************************************************************)
Use(p, opts) ==
    /\ Idle
    /\ Commit(use(Begin(Call("use", p.id, p.name, 0, opts, <<>>)), p, opts))

InstallStep ==
    /\ Running("install")
    /\ Commit(installStep(State))

UseReturn ==
    /\ Running("use")
    /\ Commit(useReturn(State))

GetPlugin(name) ==
    /\ Idle
    /\ Commit(getPlugin(Begin(Call("getPlugin", 0, name, 0, <<>>, <<>>)), name))

UseMiddleware(m) ==
    /\ Idle
    /\ Commit(useMiddleware(Begin(Call("useMiddleware", 0, m, 0, <<>>, <<>>)), m))

Hook(name, h) ==
    /\ Idle
    /\ Commit(hook(Begin(Call("hook", 0, name, 0, <<h>>, <<>>)), name, h))

Extend(name, value) ==
    /\ Idle
    /\ Commit(extend(Begin(Call("extend", 0, name, value, <<>>, <<>>)), name, value))

ApplyMiddlewares(initialData) ==
    /\ Idle
    /\ Commit(applyMiddlewares(Begin(Call("applyMiddlewares", 0, "", initialData, <<>>,
                                          middlewares)), initialData))

MiddlewareStep ==
    /\ Running("middleware")
    /\ Commit(middlewareStep(State))

ApplyReturn ==
    /\ Running("applyMiddlewares")
    /\ Commit(applyReturn(State))

CallHook(name, args) ==
    /\ Idle
    /\ Commit(callHook(Begin(Call("callHook", 0, name, 0, args, Bucket(State, name))),
                       name, args))

CallHookResume ==
    /\ Running("callHook")
    /\ Commit(callHookResume(State))

CallHookSerial(name, initialValue) ==
    /\ Idle
    /\ Commit(callHookSerial(Begin(Call("callHookSerial", 0, name, initialValue, <<>>,
                                        Bucket(State, name))), name, initialValue))

CallHookSerialResume ==
    /\ Running("callHookSerial")
    /\ Commit(callHookSerialResume(State))

HookFnStep ==
    /\ Running("hookfn")
    /\ Commit(hookFnStep(State))

Pipe ==
    /\ built = ""
    /\ Commit([State EXCEPT !.built = "pipe", !.composed = pipe(fns)])

Compose ==
    /\ built = ""
    /\ Commit([State EXCEPT !.built = "compose", !.composed = compose(fns)])

SystemCompose ==
    /\ built = ""
    /\ Commit([State EXCEPT !.built = "system.compose", !.composed = systemCompose(fns)])

\* composed(arg)
CallComposed(arg) ==
    /\ built # ""
    /\ Commit([State EXCEPT !.applied = CalledWith(arg, ApplyFn(composed, arg, <<>>))])

Retry(n) ==
    /\ retrier.state = "none"
    /\ Commit([State EXCEPT !.retrier = retry(retrier, n)])

RetryCall ==
    /\ retrier.state = "made"
    /\ Commit([State EXCEPT !.retrier = CallRetrying(retrier)])

RetryFnSettles ==
    /\ retrier.state = "awaitFn"
    /\ Commit([State EXCEPT !.retrier = FnSettled(retrier)])

RetrySleepElapses ==
    /\ retrier.state = "sleeping"
    /\ Commit([State EXCEPT !.retrier = sleep(retrier)])

RetryAwaited ==
    /\ retrier.state # "none"
    /\ retrier.awaited = Pending
    /\ Commit([State EXCEPT !.retrier = AwaitReturnValue(retrier)])

\* time passes; a due timer fires first
Tick ==
    /\ now < MaxTime
    /\ Due = {}
    /\ Commit([State EXCEPT !.now = now + 1])

Debounced ==
    /\ debouncer.calls < MaxCalls
    /\ Commit(debounce(State, now))

DebounceTimerFires ==
    \E t \in Due : Commit(debounceTimer(State, t, now))

Throttled ==
    /\ throttler.calls < MaxCalls
    /\ Commit(IF throttler.from = "misc" THEN throttle(State, now)
                                         ELSE performanceThrottle(State, now))

ThrottleTimerFires ==
    \E t \in Due : Commit(throttleTimer(State, t, now))

Memoized(args) ==
    /\ Len(memo.calls) < MaxCalls
    /\ Commit([State EXCEPT !.memo = memoize(memo, args)])

SetCount(v) ==
    /\ v # computedRef.count
    /\ Commit([State EXCEPT !.computedRef = SetStateCount(computedRef, v)])

ReadComputed ==
    /\ Len(computedRef.reads) < MaxReads
    /\ Commit([State EXCEPT !.computedRef = computed(computedRef)])

BusIdle == ~bus.frame.active

BusOn(event, callback) ==
    /\ BusIdle
    /\ Len(Subscribed(bus, event)) < (IF event = "change" THEN MaxSubs ELSE 1)
    /\ Commit([State EXCEPT !.bus = on(Forget(bus), event, callback)])

BusOff(event, callback) ==
    /\ BusIdle
    /\ Commit([State EXCEPT !.bus = off(Forget(bus), event, callback)])

\* the function on(event, callback) returned is called while callback is
\* subscribed: this.off(event, callback).  Called later it does what
\* off(event, callback) does then
BusUnsubscribe(event, callback) ==
    /\ BusIdle
    /\ callback \in Range(Subscribed(bus, event))
    /\ Commit([State EXCEPT !.bus = off(Forget(bus), event, callback)])

BusEmit(event) ==
    /\ BusIdle
    /\ Commit([State EXCEPT !.bus = emit(Forget(bus), event)])

BusEmitStep ==
    /\ bus.frame.active
    /\ Commit([State EXCEPT !.bus = emitStep(bus)])

(***************************************************************************)
(* The plugin registry on its own: plugins are registered and looked up,   *)
(* their install bodies extend the context and call use again; the other   *)
(* registries are filled from the top level only.                          *)
(***************************************************************************)
NextPlugin ==
    \/ \E p \in Plugins, opts \in OptionLists : Use(p, opts)
    \/ InstallStep
    \/ UseReturn
    \/ \E name \in PluginNames \cup {"zz"} : GetPlugin(name)
    \/ \E v \in Data : Extend("log", v)
    \/ Len(middlewares) < MaxOther /\ UseMiddleware("pass")
    \/ Len(Bucket(State, "e")) < MaxOther /\ Hook("e", "inc")

SpecPlugin == Init /\ [][NextPlugin]_vars

(***************************************************************************)
(* The middleware pipeline on its own.                                     *)
(***************************************************************************)
NextMiddleware ==
    \/ \E m \in MiddlewareKinds : Len(middlewares) < MaxMiddlewares /\ UseMiddleware(m)
    \/ \E x \in Data : ApplyMiddlewares(x)
    \/ MiddlewareStep
    \/ ApplyReturn

SpecMiddleware == Init /\ [][NextMiddleware]_vars

(***************************************************************************)
(* The hook registry on its own.                                           *)
(***************************************************************************)
\* the hooks registered from the top level under each name
HooksFor(name) == IF name = "e" THEN HookKinds ELSE {"inc", "reg"}

NextHook ==
    \/ \E name \in HookNames : \E h \in HooksFor(name) :
            Len(Bucket(State, name)) < MaxHooks /\ Hook(name, h)
    \/ \E name \in HookNames, args \in ArgLists : CallHook(name, args)
    \/ \E name \in HookNames, x \in Data : CallHookSerial(name, x)
    \/ HookFnStep
    \/ CallHookResume
    \/ CallHookSerialResume

SpecHook == Init /\ [][NextHook]_vars

(***************************************************************************)
(* Context extension: extend is called from the top level with new names,  *)
(* with the names of the context's fields and with an inherited name, and  *)
(* from install bodies.                                                    *)
(***************************************************************************)
ExtendNames == {"log"} \cup ReservedKeys \cup ObjectPrototypeKeys

NextExtend ==
    \/ \E name \in ExtendNames, v \in Data : Extend(name, v)
    \/ \E p \in {q \in Plugins : q.name = "a"}, opts \in OptionLists : Use(p, opts)
    \/ InstallStep
    \/ UseReturn

SpecExtend == Init /\ [][NextExtend]_vars

(***************************************************************************)
(* Function composition on its own: one of pipe, compose and the System's  *)
(* compose method is called with a list of functions, and the function it  *)
(* returns is called, any number of times.                                 *)
(***************************************************************************)
InitCompose ==
    /\ NewSystem
    /\ fns \in FnLists
    /\ built = ""
    /\ composed = Identity
    /\ applied = NotApplied
    /\ NoUtilities({})

NextCompose ==
    \/ Pipe
    \/ Compose
    \/ SystemCompose
    \/ \E x \in Data : CallComposed(x)

SpecCompose == InitCompose /\ [][NextCompose]_vars

(***************************************************************************)
(* The operations of the System together, with a few user functions of     *)
(* each sort: a plugin whose install extends the context and one whose     *)
(* install throws, a middleware and a hook that register another one while *)
(* they run, a middleware and a hook that throw.  SpecCore has every       *)
(* operation but extend; SpecSystem has extend as well, called with a new  *)
(* name and with the names of the context's fields.                        *)
(***************************************************************************)
CorePlugins == {p \in Plugins : p.install \in {"extendOpt", "noop", "throws"}}

CoreFns == {"reg", "boom"}

NextCore ==
    \/ \E p \in CorePlugins : Use(p, <<>>)
    \/ InstallStep
    \/ UseReturn
    \/ \E name \in {p.name : p \in CorePlugins} : GetPlugin(name)
    \/ \E m \in CoreFns : Len(middlewares) < MaxOther /\ UseMiddleware(m)
    \/ ApplyMiddlewares(0)
    \/ MiddlewareStep
    \/ ApplyReturn
    \/ \E h \in CoreFns : Len(Bucket(State, "e")) < MaxOther /\ Hook("e", h)
    \/ CallHook("e", <<0>>)
    \/ CallHookResume
    \/ CallHookSerial("e", 0)
    \/ CallHookSerialResume
    \/ HookFnStep

SpecCore == Init /\ [][NextCore]_vars

NextSystem ==
    \/ NextCore
    \/ \E name \in {"log"} \cup ReservedKeys : Extend(name, 0)

SpecSystem == Init /\ [][NextSystem]_vars

(***************************************************************************)
(* dispatch on its own, with a middleware that calls its continuation      *)
(* twice.                                                                  *)
(***************************************************************************)
DispatchKinds == {"pass", "inc", "stop", "twice", "reg", "boom"}

NextDispatch ==
    \/ \E m \in DispatchKinds : Len(middlewares) < MaxMiddlewares /\ UseMiddleware(m)
    \/ \E x \in Data : ApplyMiddlewares(x)
    \/ MiddlewareStep
    \/ ApplyReturn

SpecDispatch == Init /\ [][NextDispatch]_vars

(***************************************************************************)
(* Executions run to completion: JavaScript runs a call, and every user    *)
(* function it enters, without interruption, so a step of the function on  *)
(* top of the stack is taken whenever there is one.  The user functions    *)
(* are a middleware that calls its continuation twice, middlewares and     *)
(* hooks that register another one while they run, and ones that throw.    *)
(***************************************************************************)
LiveMiddlewares == {"twice", "reg", "boom"}

LiveHooks == {"inc", "reg", "boom"}

NextLive ==
    \/ \E m \in LiveMiddlewares : Len(middlewares) < MaxHooks /\ UseMiddleware(m)
    \/ ApplyMiddlewares(0)
    \/ MiddlewareStep
    \/ ApplyReturn
    \/ \E h \in LiveHooks : Len(Bucket(State, "e")) < MaxOther /\ Hook("e", h)
    \/ CallHook("e", <<0>>)
    \/ CallHookResume
    \/ CallHookSerial("e", 0)
    \/ CallHookSerialResume
    \/ HookFnStep

RunToCompletion ==
    /\ WF_vars(MiddlewareStep)
    /\ WF_vars(ApplyReturn)
    /\ WF_vars(HookFnStep)
    /\ WF_vars(CallHookResume)
    /\ WF_vars(CallHookSerialResume)

SpecLive == Init /\ [][NextLive]_vars /\ RunToCompletion

(***************************************************************************)
(* The whole System: every operation, called in any order.  The            *)
(* specifications above are this one restricted to the operations of one   *)
(* component.                                                              *)
(***************************************************************************)
(***************************************************************************)
(* retry on its own: fn's behaviour is drawn with the initial state, retry *)
(* is called once, and the function it returns is called once and / or     *)
(* handed to await.                                                        *)
(***************************************************************************)
InitRetry ==
    /\ NewSystem
    /\ NoFns
    /\ retrier \in {[NewRetrier EXCEPT !.plan = p] : p \in Plans}
    /\ NoUtilities({"retrier"})

NextRetry ==
    \/ \E n \in 0..MaxRetries : Retry(n)
    \/ RetryCall
    \/ RetryFnSettles
    \/ RetrySleepElapses
    \/ RetryAwaited

SpecRetry == InitRetry /\ [][NextRetry]_vars

(***************************************************************************)
(* debounce on its own: wait is drawn with the initial state; the wrapper  *)
(* is called at any time, timers fire when due.                            *)
(***************************************************************************)
InitDebounce ==
    /\ NewSystem
    /\ NoFns
    /\ debouncer \in {[NewDebouncer EXCEPT !.wait = w] : w \in 0..MaxWait}
    /\ NoUtilities({"debouncer"})

NextDebounce ==
    \/ Tick
    \/ Debounced
    \/ DebounceTimerFires

SpecDebounce == InitDebounce /\ [][NextDebounce]_vars

(***************************************************************************)
(* throttle on its own: the module the wrapper comes from and wait are     *)
(* drawn with the initial state.  Date.now() counts from 1970, so the      *)
(* clock starts no less than the largest wait away from lastCallTime's     *)
(* initial 0.                                                              *)
(***************************************************************************)
InitThrottle ==
    /\ NewSystem
    /\ NoFns
    /\ throttler \in {[NewThrottler EXCEPT !.from = m, !.wait = w] :
                         m \in {"misc", "performance"}, w \in 0..MaxWait}
    /\ now = MaxWait
    /\ NoUtilities({"throttler", "now"})

NextThrottle ==
    \/ Tick
    \/ Throttled
    \/ ThrottleTimerFires

SpecThrottle == InitThrottle /\ [][NextThrottle]_vars

(***************************************************************************)
(* memoize on its own: the wrapper is called with any argument lists.      *)
(***************************************************************************)
InitMemoize == NewSystem /\ NoFns /\ NoUtilities({})

NextMemoize == \E args \in MemoArgLists : Memoized(args)

SpecMemoize == InitMemoize /\ [][NextMemoize]_vars

(***************************************************************************)
(* computed on its own: state.count is set and c.value is read, in any     *)
(* order.                                                                  *)
(***************************************************************************)
InitComputed == NewSystem /\ NoFns /\ NoUtilities({})

NextComputed ==
    \/ \E v \in 0..MaxCount : SetCount(v)
    \/ ReadComputed

SpecComputed == InitComputed /\ [][NextComputed]_vars

(***************************************************************************)
(* eventBus on its own: on, off, emit and the unsubscribe functions are    *)
(* called from the top level, on and off also by the callbacks an emit     *)
(* invokes.                                                                *)
(***************************************************************************)
InitBus == NewSystem /\ NoFns /\ NoUtilities({})

NextBus ==
    \/ \E event \in BusEvents : \E callback \in CallbacksFor(event) :
          \/ BusOn(event, callback)
          \/ BusOff(event, callback)
          \/ BusUnsubscribe(event, callback)
    \/ \E event \in BusEvents : BusEmit(event)
    \/ BusEmitStep

SpecBus == InitBus /\ [][NextBus]_vars

Next == NextPlugin \/ NextMiddleware \/ NextHook \/ NextExtend \/ NextCompose \/ NextSystem \/ NextDispatch \/ NextLive \/ NextRetry \/ NextDebounce \/ NextThrottle \/ NextMemoize \/ NextComputed \/ NextBus

Spec == Init /\ [][Next]_vars

(***************************************************************************)
(* Claims about the plugin registry.                                       *)
(***************************************************************************)
\* The step is a call use(p, ...opts): from the top level, or from the
\* install body on top of the stack.
TopLevelUse(p, opts) ==
    Idle /\ call'.op = "use" /\ call'.plugin = p.id /\ call'.args = opts

NestedUse(p, opts) ==
    /\ Running("install")
    /\ opts = <<>>
    /\ LET f == stack[Len(stack)]
           body == InstallBody(PluginById(f.plugin).install)
       IN  /\ f.pc <= Len(body)
           /\ \/ body[f.pc].i = "use" /\ body[f.pc].n = p.id
              \/ body[f.pc].i = "useSelf" /\ f.plugin = p.id

UseCalled(p, opts) == TopLevelUse(p, opts) \/ NestedUse(p, opts)

\* the install body on top of the stack has moved on by one instruction
CallerResumed ==
    /\ Len(stack') = Len(stack)
    /\ stack' = [stack EXCEPT ![Len(stack)].pc = @ + 1]

C1_Step ==
    \A p \in Plugins, opts \in OptionLists :
        (UseCalled(p, opts) /\ p.name \in DOMAIN plugins) =>
            /\ installs' = installs
            /\ \A i \in 1..Len(trace') : i > Len(trace) => trace'[i].ev # "install"
            /\ plugins' = plugins
            /\ middlewares' = middlewares
            /\ hooks' = hooks
            /\ options' = options
            /\ slots' = slots
            /\ call'.status # "threw"
            /\ ret' = This
            /\ IF Idle THEN stack' = <<>> /\ call'.status = "returned"
               ELSE CallerResumed /\ call'.status = "running"

\* C1: a call use(p2, ...opts) whose name is already registered does not
\* invoke p2.install, leaves the registered plugin of that name, the plugin
\* registry, the middleware list, the hook registry, the options and the
\* extension slots as they were, does not throw, and returns the System.
C1_DuplicateUseIsNoOp == [][C1_Step]_vars

\* A second plugin object with a registered name has been passed to use and
\* the call has returned: the first one is still registered, the second was
\* never installed, one warning was written.
C1_Witness ==
    /\ Idle
    /\ call.op = "use"
    /\ call.status = "returned"
    /\ call.name \in DOMAIN plugins
    /\ plugins[call.name].id # call.plugin
    /\ installs[call.plugin] = 0
    /\ installs[plugins[call.name].id] = 1
    /\ console = << <<"Plugin is already registered", call.name>> >>
    /\ middlewares # <<>>
    /\ DOMAIN slots # {}

InstallEntered(p, opts) ==
    /\ installs' = [installs EXCEPT ![p.id] = @ + 1]
    /\ trace' = Append(IF Idle THEN <<>> ELSE trace, Event("install", p.id, "", 0, 0, opts))
    /\ Len(stack') = Len(stack) + 2
    /\ stack'[Len(stack')].op = "install"
    /\ stack'[Len(stack')].plugin = p.id
    /\ stack'[Len(stack')].args = opts
    /\ stack'[Len(stack')].pc = 1
    /\ stack'[Len(stack') - 1].op = "use"
    /\ stack'[Len(stack') - 1].plugin = p.id
    /\ call'.status = "running"
    /\ p.name \in DOMAIN plugins'
    /\ plugins'[p.name] = p

C2_Step ==
    \A p \in Plugins, opts \in OptionLists :
        (UseCalled(p, opts) /\ p.name \notin DOMAIN plugins) => InstallEntered(p, opts)

\* the frame of use(p) returns only with p's install body no longer running
C2_ReturnStep ==
    \A p \in Plugins :
        (Running("use") /\ stack[Len(stack)].plugin = p.id /\ Len(stack') < Len(stack)) =>
            /\ installs[p.id] = 1
            /\ installs' = installs
            /\ \A i \in 1..Len(stack') : ~(stack'[i].op = "install" /\ stack'[i].plugin = p.id)
            /\ ret' = This

\* install has run once for the plugin registered under each name, and never
\* for any other plugin object
C2_Once ==
    \A p \in Plugins :
        installs[p.id] = IF p.name \in DOMAIN plugins /\ plugins[p.name] = p THEN 1 ELSE 0

\* while use(p) is in progress its install body is above it on the stack
C2_Synchronous ==
    \A i \in 1..Len(stack) :
        stack[i].op = "use" =>
            \/ i = Len(stack)
            \/ stack[i + 1].op = "install" /\ stack[i + 1].plugin = stack[i].plugin

\* C2: a call use(p, ...opts) whose name is not yet registered invokes
\* p.install exactly once, with exactly the given options, and the install
\* has returned before use returns; whatever use calls follow, the install of
\* a registered plugin is not invoked again.
C2_InstallExactlyOnce ==
    /\ [][C2_Step /\ C2_ReturnStep]_vars
    /\ [](C2_Once /\ C2_Synchronous)

\* use(p, 1) has returned for a plugin p whose install calls use for a second,
\* not yet registered plugin: each of the two installs ran once, the outer one
\* with the option 1, and both had returned when use returned.
C2_Witness ==
    /\ Idle
    /\ call.op = "use"
    /\ call.status = "returned"
    /\ call.plugin = 4
    /\ call.args = <<1>>
    /\ Len(trace) = 2
    /\ trace[1] = Event("install", 4, "", 0, 0, <<1>>)
    /\ trace[2] = Event("install", 1, "", 0, 0, <<>>)
    /\ installs[4] = 1
    /\ installs[1] = 1
    /\ installs[2] = 0
    /\ slots = [k \in {"log"} |-> 0]

(***************************************************************************)
(* Claims about the middleware pipeline.                                   *)
(*                                                                         *)
(* What a middleware body does, read off its script: whether it calls its  *)
(* continuation, what it adds to the data it passes on, and what it adds   *)
(* to the value it returns.                                                *)
(***************************************************************************)
CallsNext(kind) ==
    \E i \in 1..Len(MiddlewareBody(kind)) : MiddlewareBody(kind)[i].i = "next"

NextDelta(kind) ==
    LET body == MiddlewareBody(kind)
    IN  body[CHOOSE i \in 1..Len(body) : body[i].i = "next"].n

ReturnsResult(kind) ==
    LET body == MiddlewareBody(kind)
    IN  body[Len(body)].i = "return" /\ body[Len(body)].s = "result"

ReturnDelta(kind) == MiddlewareBody(kind)[Len(MiddlewareBody(kind))].n

\* the value of the chain list[i..] applied to d, by the definition of a
\* continuation-passing chain
RECURSIVE ChainValue(_, _, _)
ChainValue(list, i, d) ==
    IF i > Len(list) THEN d
    ELSE IF CallsNext(list[i])
         THEN ChainValue(list, i + 1, d + NextDelta(list[i])) + ReturnDelta(list[i])
         ELSE d + ReturnDelta(list[i])

\* the data that reaches the middleware at (0-based) index j
RECURSIVE DataAt(_, _, _)
DataAt(list, j, d) ==
    IF j = 0 THEN d ELSE DataAt(list, j - 1, d) + NextDelta(list[j])

Applying == call.op = "applyMiddlewares"

Applied == Applying /\ call.status = "returned"

TraceFns == [i \in 1..Len(trace) |-> trace[i].fn]

\* every middleware entered so far is the one the list held, at the call's
\* start, at the index it was entered for
C3_FromStartList ==
    Applying =>
        \A k \in 1..Len(trace) :
            /\ trace[k].ev = "middleware"
            /\ trace[k].idx < Len(call.list)
            /\ trace[k].fn = call.list[trace[k].idx + 1]

\* a finished execution whose middlewares all call their continuation has
\* invoked exactly the list of the call's start
C3_WholeStartList ==
    (Applied /\ \A i \in 1..Len(call.list) : CallsNext(call.list[i])) =>
        TraceFns = call.list

\* the list of the call's start is the list registered when the call is made
C3_StartStep == (Idle /\ Applying') => call'.list = middlewares

\* C3: an applyMiddlewares execution invokes the middlewares of the list as
\* it was when the call started; a useMiddleware made while it is in
\* progress changes neither their number nor their identity, and is seen by
\* the calls started after it.
C3_SnapshotAtCallStart ==
    /\ [](C3_FromStartList /\ C3_WholeStartList)
    /\ [][C3_StartStep]_vars

\* An execution has finished during which a middleware was registered: the
\* registered list is one longer than the list the execution ran over.
C3_Witness ==
    /\ Idle
    /\ Applied
    /\ Len(call.list) >= 2
    /\ middlewares = Append(call.list, "late")
    /\ TraceFns = call.list

\* the first middleware of the list that never calls its continuation
FirstStop(list) ==
    CHOOSE i \in 1..Len(list) :
        /\ ~CallsNext(list[i])
        /\ \A j \in 1..(i - 1) : CallsNext(list[j])

HasStop(list) == \E i \in 1..Len(list) : ~CallsNext(list[i])

\* the middleware returns a value
Returns(kind) == MiddlewareBody(kind)[Len(MiddlewareBody(kind))].i = "return"

\* C4: if m_i never calls its continuation, m_(i+1)..m_n are not invoked and
\* applyMiddlewares returns m_i's return value as passed back through
\* m_1..m_(i-1).
C4_ShortCircuit ==
    (Applying /\ HasStop(call.list)) =>
        LET i == FirstStop(call.list)
        IN  /\ \A k \in 1..Len(trace) : trace[k].idx < i
            /\ (\A j \in 1..i : Returns(call.list[j])) =>
                  /\ call.status # "threw"
                  /\ call.status = "returned" =>
                        /\ TraceFns = SubSeq(call.list, 1, i)
                        /\ call.result =
                              Val(ChainValue(SubSeq(call.list, 1, i), 1, call.data))

\* wrap, stop, inc with initial data 1: stop returned 100 + 1, wrap passed it back as 111, and
\* the third middleware was never entered.
C4_Witness ==
    /\ Applied
    /\ call.list = <<"wrap", "stop", "inc">>
    /\ call.data = 1
    /\ TraceFns = <<"wrap", "stop">>
    /\ call.result = Val(111)

\* the middleware calls its continuation with the data it received
PassesDataOn(kind) == CallsNext(kind) /\ NextDelta(kind) = 0

\* ... and returns what the continuation returned
PassThrough(kind) == PassesDataOn(kind) /\ ReturnsResult(kind) /\ ReturnDelta(kind) = 0

\* C5 as stated: if every middleware calls its continuation with the data it
\* received, applyMiddlewares(x) returns x.
C5_AsStated ==
    (Applied /\ \A i \in 1..Len(call.list) : PassesDataOn(call.list[i])) =>
        call.result = Val(call.data)

\* C5, amended: if every middleware calls its continuation with the data it
\* received and returns the continuation's result unchanged,
\* applyMiddlewares(x) returns x.
C5_PassThroughReturnsInput ==
    (Applied /\ \A i \in 1..Len(call.list) : PassThrough(call.list[i])) =>
        call.result = Val(call.data)

C5_Witness ==
    /\ Applied
    /\ call.list = <<"pass", "reg", "pass">>
    /\ TraceFns = call.list
    /\ call.data = 1
    /\ call.result = Val(1)

\* the step is a call of the continuation handed to the last middleware
LastCallsNext ==
    /\ Running("middleware")
    /\ LET f == stack[Len(stack)]
       IN  /\ f.idx = Len(f.snap) - 1
           /\ f.pc <= Len(MiddlewareBody(f.fn))
           /\ MiddlewareBody(f.fn)[f.pc].i = "next"

C6_LastStep ==
    LastCallsNext =>
        LET f == stack[Len(stack)]
        IN  /\ ret' = Val(f.data + MiddlewareBody(f.fn)[f.pc].n)
            /\ stack' = [stack EXCEPT ![Len(stack)].pc = @ + 1]
            /\ trace' = trace

C6_Empty == (Applied /\ call.list = <<>>) => (call.result = Val(call.data) /\ trace = <<>>)

\* C6: with no middleware registered applyMiddlewares(x) returns x, and the
\* continuation handed to the last middleware returns the data it is called
\* with.
C6_IdentityTermination == [][C6_LastStep]_vars /\ []C6_Empty

C6_Witness ==
    /\ Idle
    /\ Applied
    /\ middlewares = <<>>
    /\ call.list = <<>>
    /\ call.data = 1
    /\ call.result = Val(1)

\* C7: the middlewares are entered in registration order, and the data a
\* middleware receives is the initial data as changed by the middlewares of
\* smaller index on the way to their continuations.
C7_OrderAndData ==
    Applying =>
        \A k \in 1..Len(trace) :
            /\ trace[k].idx < Len(call.list)
            /\ trace[k].fn = call.list[trace[k].idx + 1]
            /\ \A j \in 0..(trace[k].idx - 1) : \E h \in 1..(k - 1) : trace[h].idx = j
            /\ trace[k].data = DataAt(call.list, trace[k].idx, call.data)

\* inc, wrap, late with initial data 0: wrap and late received 1, and wrap's
\* + 10 on the way back reached neither.
C7_Witness ==
    /\ Applied
    /\ call.list = <<"inc", "wrap", "late">>
    /\ call.data = 0
    /\ Len(trace) = 3
    /\ trace[1].data = 0
    /\ trace[2].data = 1
    /\ trace[3].data = 1
    /\ call.result = Val(12)

(***************************************************************************)
(* Claims about the hook registry.                                         *)
(***************************************************************************)
\* what a hook body returns for the first argument x, read off its script
HookValue(kind, x) ==
    LET r == HookBody(kind)[Len(HookBody(kind))]
    IN  IF r.s = "times" THEN x * r.n ELSE x + r.n

\* h_k(...h_1(v)...) for the first k hooks of list
RECURSIVE Fold(_, _, _)
Fold(list, k, v) ==
    IF k = 0 THEN v ELSE HookValue(list[k], Fold(list, k - 1, v))

\* the hook returns a value
HookReturns(kind) == HookBody(kind)[Len(HookBody(kind))].i = "return"

\* the list of the call's start is the bucket of the name when the call is made
C8_StartStep ==
    (Idle /\ call'.op = "callHook") =>
        call'.list = (IF call'.name \in DOMAIN hooks THEN hooks[call'.name] ELSE <<>>)

C8_FanOut ==
    call.op = "callHook" =>
        /\ Len(trace) <= Len(call.list)
        /\ \A k \in 1..Len(trace) :
              /\ trace[k].ev = "hook"
              /\ trace[k].idx = k - 1
              /\ trace[k].fn = call.list[k]
              /\ trace[k].args = call.args
        /\ (\A k \in 1..Len(call.list) : HookReturns(call.list[k])) => call.status # "threw"
        /\ call.status = "returned" =>
              /\ Len(trace) = Len(call.list)
              /\ call.result =
                    List([k \in 1..Len(call.list) |-> HookValue(call.list[k], call.args[1])])

\* C8: callHook(name, ...args) invokes the hooks registered under name, each
\* once, in registration order and with the same args, and returns their
\* return values in that order; no hook of another name is invoked; with no
\* hook under name the result is the empty sequence.
C8_CallHook == []C8_FanOut /\ [][C8_StartStep]_vars

\* inc and dbl under "e", another hook under "f": callHook('e', 0, 1) called
\* both with (0, 1) and returned [1, 0].
C8_Witness ==
    /\ Idle
    /\ call.op = "callHook"
    /\ call.status = "returned"
    /\ call.name = "e"
    /\ call.args = <<0, 1>>
    /\ call.list = <<"inc", "dbl">>
    /\ "f" \in DOMAIN hooks
    /\ Len(trace) = 2
    /\ call.result = List(<<1, 0>>)

C9_StartStep ==
    (Idle /\ call'.op = "callHookSerial") =>
        call'.list = (IF call'.name \in DOMAIN hooks THEN hooks[call'.name] ELSE <<>>)

C9_Reduce ==
    call.op = "callHookSerial" =>
        /\ Len(trace) <= Len(call.list)
        /\ \A k \in 1..Len(trace) :
              /\ trace[k].ev = "hook"
              /\ trace[k].idx = k - 1
              /\ trace[k].fn = call.list[k]
              /\ trace[k].args = <<Fold(call.list, k - 1, call.data)>>
        /\ (\A k \in 1..Len(call.list) : HookReturns(call.list[k])) => call.status # "threw"
        /\ call.status = "returned" =>
              /\ Len(trace) = Len(call.list)
              /\ call.result = Val(Fold(call.list, Len(call.list), call.data))

\* C9: callHookSerial(name, v0) calls the first hook of name with v0 and each
\* later hook with the value the hook before it returned, each hook once,
\* and returns the last hook's value; with no hook it returns v0.
C9_CallHookSerial == []C9_Reduce /\ [][C9_StartStep]_vars

\* callHookSerial('e', 0) with the hooks inc, dbl returned dbl(inc(0)) = 2.
C9_Witness ==
    /\ Idle
    /\ call.op = "callHookSerial"
    /\ call.status = "returned"
    /\ call.data = 0
    /\ call.list = <<"inc", "dbl">>
    /\ Len(trace) = 2
    /\ trace[1].args = <<0>>
    /\ trace[2].args = <<1>>
    /\ call.result = Val(2)

(***************************************************************************)
(* Claims about context extension.                                         *)
(***************************************************************************)
\* The step is a call extend(name, value): from the top level, or from the
\* install body on top of the stack.
ExtendCalled(name, value) ==
    \/ Idle /\ call'.op = "extend" /\ call'.name = name /\ call'.data = value
    \/ /\ Running("install")
       /\ LET f == stack[Len(stack)]
              body == InstallBody(PluginById(f.plugin).install)
          IN  /\ f.pc <= Len(body)
              /\ body[f.pc].i = "extendOpt"
              /\ body[f.pc].s = name
              /\ value = IF Len(f.args) > 0 THEN f.args[1] ELSE 0

\* name is a property of the context: a field set at construction, a
\* property assigned since, or one inherited from Object.prototype
ExistsOnContext(name) ==
    \/ name \in {"plugins", "middlewares", "hooks", "options"}
    \/ name \in DOMAIN slots
    \/ name \in {"toString", "__proto__"}

\* extend(name, value) returns the System, having warned if and only if name
\* was a property of the context
C10_WarnStep(name) ==
    /\ console' = (IF Idle THEN <<>> ELSE console)
                    \o (IF ExistsOnContext(name)
                        THEN << <<"API already exists", name>> >> ELSE <<>>)
    /\ call'.status # "threw"
    /\ ret' = This

\* after extend(name, value), context[name] is value and every other
\* property reads as before
C10_WriteStep(name, value) ==
    /\ ContextGet(slots', name) = Val(value)
    /\ \A other \in ExtendNames \ {name} : ContextGet(slots', other) = ContextGet(slots, other)

\* a property of the context changes only by an extend
C10_OtherStep ==
    (~ \E name \in ExtendNames, value \in Data : ExtendCalled(name, value)) =>
        slots' = slots

\* C10: context[name] reads as the value of the most recent
\* extend(name, value); extend warns exactly when name was already a property
\* of the context (name in context), and does not throw.
C10_ExtendLastWriteWins ==
    [][/\ \A name \in ExtendNames, value \in Data :
              ExtendCalled(name, value) => (C10_WarnStep(name) /\ C10_WriteStep(name, value))
       /\ C10_OtherStep]_vars

\* The same for every name but __proto__, and for __proto__ the warning
\* alone: this part of C10 holds.
C10_ExceptProto ==
    [][/\ \A name \in ExtendNames, value \in Data :
              ExtendCalled(name, value) =>
                  /\ C10_WarnStep(name)
                  /\ name # "__proto__" => C10_WriteStep(name, value)
       /\ C10_OtherStep]_vars

\* extend('log', 1) has overwritten the value 0 an install body had stored
\* with extend('log', 0): context.log is 1 and the call warned.
C10_Witness ==
    /\ Idle
    /\ call.op = "extend"
    /\ call.status = "returned"
    /\ call.name = "log"
    /\ call.data = 1
    /\ slots["log"] = 1
    /\ console = << <<"API already exists", "log">> >>
    /\ "plugins" \notin DOMAIN slots
    /\ "a" \in DOMAIN plugins
    /\ plugins["a"].id = 1
    /\ installs[1] = 1

(***************************************************************************)
(* Claims about function composition.                                      *)
(***************************************************************************)
\* f_k(...f_2(f_1(x))...) for the first k functions of list
RECURSIVE LeftToRight(_, _, _)
LeftToRight(list, k, x) ==
    IF k = 0 THEN x ELSE FnValue(list[k][3], LeftToRight(list, k - 1, x))

\* f_k(f_(k+1)(...f_n(x)...)) for the functions of list from the k-th on
RECURSIVE RightToLeft(_, _, _)
RightToLeft(list, k, x) ==
    IF k > Len(list) THEN x ELSE FnValue(list[k][3], RightToLeft(list, k + 1, x))

Reverse(list) == [i \in 1..Len(list) |-> list[Len(list) + 1 - i]]

\* the indices 1..n in rising order
Rising(n) == [i \in 1..n |-> i]

\* the value of f(x)
ValueOf(f, x) == ApplyFn(f, x, <<>>).value

\* the composed function was called: its value is the composition in the
\* direction of the function that built it, and each f_i was applied once
C11_Called ==
    (applied.done /\ Len(fns) >= 2) =>
        /\ built = "pipe" =>
              /\ applied.value = LeftToRight(fns, Len(fns), applied.arg)
              /\ applied.calls = Rising(Len(fns))
        /\ built \in {"compose", "system.compose"} =>
              /\ applied.value = RightToLeft(fns, 1, applied.arg)
              /\ applied.calls = Reverse(Rising(Len(fns)))

\* compose and the System's compose agree, and pipe(f_1..f_n) agrees with
\* compose(f_n..f_1), on every input
C11_Agree ==
    Len(fns) >= 2 =>
        \A x \in Data :
            /\ ValueOf(compose(fns), x) = ValueOf(systemCompose(fns), x)
            /\ ValueOf(pipe(fns), x) = ValueOf(compose(Reverse(fns)), x)

\* C11: for n >= 2 functions, pipe(f_1..f_n)(x) = f_n(...f_2(f_1(x))...) and
\* compose(f_1..f_n)(x) = f_1(f_2(...f_n(x)...)), each f_i being applied
\* exactly once per call; compose and the System's compose method give the
\* same result, and pipe(f_1..f_n) equals compose(f_n..f_1).
C11_PipeCompose == C11_Called /\ C11_Agree

\* pipe(add10, multiply2, subtract5)(1) = ((1 + 10) * 2) - 5 = 17, the three
\* functions applied in that order.
C11_Witness ==
    /\ built = "pipe"
    /\ fns = <<Fn(1, "add10"), Fn(2, "multiply2"), Fn(3, "subtract5")>>
    /\ applied.done
    /\ applied.arg = 1
    /\ applied.value = 17
    /\ applied.calls = <<1, 2, 3>>

\* C12: pipe and compose called with no function return the identity
\* function, and called with exactly one function f return f itself, not a
\* wrapper around it.
C12_ZeroAndOne ==
    built \in {"pipe", "compose"} =>
        /\ Len(fns) = 0 =>
              /\ composed = Identity
              /\ \A x \in Data : ApplyFn(composed, x, <<>>) = Outcome(x, <<>>)
              /\ applied.done => applied.value = applied.arg
        /\ Len(fns) = 1 => composed = fns[1]

\* pipe(multiply2) returned multiply2 itself, and calling it with 1 gave 2.
C12_Witness ==
    /\ built = "pipe"
    /\ fns = <<Fn(1, "multiply2")>>
    /\ composed = Fn(1, "multiply2")
    /\ applied.done
    /\ applied.arg = 1
    /\ applied.value = 2
    /\ applied.calls = <<1>>

(***************************************************************************)
(* Claims about exceptions thrown by user code.                            *)
(***************************************************************************)
\* the install body of p throws
Throws(p) ==
    \E i \in 1..Len(InstallBody(p.install)) : InstallBody(p.install)[i].i = "throw"

\* the step is the throw statement of the install body on top of the stack
InstallThrows ==
    /\ Running("install")
    /\ LET f == stack[Len(stack)]
           body == InstallBody(PluginById(f.plugin).install)
       IN  f.pc <= Len(body) /\ body[f.pc].i = "throw"

\* the value that statement throws
ThrownByInstall ==
    LET f == stack[Len(stack)]
    IN  InstallBody(PluginById(f.plugin).install)[f.pc].s

\* the exception leaves every use in progress and reaches the top-level
\* caller as it was thrown; the context is what the install bodies made of
\* it, and every plugin whose use was in progress is registered
C13_ThrowStep ==
    InstallThrows =>
        /\ stack' = <<>>
        /\ call'.status = "threw"
        /\ call'.error = ThrownByInstall
        /\ plugins' = plugins
        /\ middlewares' = middlewares
        /\ hooks' = hooks
        /\ options' = options
        /\ slots' = slots
        /\ \A i \in 1..Len(stack) :
              stack[i].op = "use" =>
                  LET q == PluginById(stack[i].plugin)
                  IN  q.name \in DOMAIN plugins' /\ plugins'[q.name] = q

\* a top-level use has ended with the exception of an install body: the
\* plugin whose install threw is the last one entered; it is registered and
\* getPlugin returns it; what its install did before the throw is there
C13_AfterThrow ==
    (call.op = "use" /\ call.status = "threw" /\ call.error = "install error") =>
        /\ trace # <<>>
        /\ LET last == trace[Len(trace)]
               p == PluginById(last.plugin)
           IN  /\ last.ev = "install"
               /\ Throws(p)
               /\ p.name \in DOMAIN plugins
               /\ plugins[p.name] = p
               /\ getPlugin(State, p.name).call.result = PluginRef(p)
               /\ "log" \in DOMAIN slots
               /\ slots["log"] = (IF Len(last.args) > 0 THEN last.args[1] ELSE 0)
               /\ middlewares # <<>>
               /\ middlewares[Len(middlewares)] = "pass"

\* use of a name under which a plugin is registered whose install threw: a
\* warning, no install, no change of the registry, no exception
C13_DuplicateStep ==
    \A q \in Plugins, opts \in OptionLists :
        (/\ UseCalled(q, opts)
         /\ q.name \in DOMAIN plugins
         /\ Throws(plugins[q.name])) =>
            /\ installs' = installs
            /\ plugins' = plugins
            /\ console' = Append(IF Idle THEN <<>> ELSE console,
                                 <<"Plugin is already registered", q.name>>)
            /\ call'.status # "threw"
            /\ ret' = This

\* the install of a plugin whose install throws is entered at most once, and
\* that of another plugin object with its name never, once it is registered
C13_NoSecondInstall ==
    \A p \in Plugins :
        (Throws(p) /\ installs[p.id] >= 1) =>
            /\ installs[p.id] = 1
            /\ p.name \in DOMAIN plugins
            /\ plugins[p.name] = p
            /\ \A q \in Plugins : (q.name = p.name /\ q # p) => installs[q.id] = 0

\* C13: if p.install throws during use(p) for a name not yet registered, the
\* exception reaches the caller of use as thrown, p stays registered
\* (getPlugin(p.name) returns p), every change install made to the context
\* before throwing is kept, and a later use of a plugin with that name is
\* rejected as a duplicate without any install being invoked.
C13_InstallThrows ==
    /\ [][C13_ThrowStep /\ C13_DuplicateStep]_vars
    /\ [](C13_AfterThrow /\ C13_NoSecondInstall)

\* use(<plugin 7>) threw from the install of plugin 5, which plugin 7's
\* install had passed to use; then use(<plugin 6>), of the same name as
\* plugin 5, returned with a warning and without an install.
C13_Witness ==
    /\ Idle
    /\ call.op = "use"
    /\ call.plugin = 6
    /\ call.status = "returned"
    /\ console = << <<"Plugin is already registered", "d">> >>
    /\ plugins["d"].id = 5
    /\ "e" \in DOMAIN plugins
    /\ installs[7] = 1
    /\ installs[5] = 1
    /\ installs[6] = 0
    /\ "log" \in DOMAIN slots
    /\ middlewares = <<"pass">>

\* the step is the throw statement of the middleware body on top of the stack
MiddlewareThrows ==
    /\ Running("middleware")
    /\ LET f == stack[Len(stack)]
       IN  f.pc <= Len(MiddlewareBody(f.fn)) /\ MiddlewareBody(f.fn)[f.pc].i = "throw"

\* the exception leaves every middleware in progress and applyMiddlewares,
\* which returns nothing; the step invokes no middleware and leaves the
\* registered list as it is
C14_ThrowStep ==
    MiddlewareThrows =>
        /\ stack' = <<>>
        /\ call'.status = "threw"
        /\ call'.error = MiddlewareBody(stack[Len(stack)].fn)[stack[Len(stack)].pc].s
        /\ call'.result = Undefined
        /\ trace' = trace
        /\ middlewares' = middlewares

\* the middleware bodies entered so far that register a middleware
Registering ==
    {k \in 1..Len(trace) :
        \E i \in 1..Len(MiddlewareBody(trace[k].fn)) :
            MiddlewareBody(trace[k].fn)[i].i = "useMiddlewareOnce"}

\* an execution that ended with an exception: no result, no middleware
\* entered twice, and the registered list is the list of the call's start
\* (with, behind it, what middleware bodies registered themselves)
C14_AfterThrow ==
    (Applying /\ call.status = "threw") =>
        /\ stack = <<>>
        /\ call.error = "middleware error"
        /\ call.result = Undefined
        /\ \A k, h \in 1..Len(trace) : trace[k].idx = trace[h].idx => k = h
        /\ Len(middlewares) >= Len(call.list)
        /\ SubSeq(middlewares, 1, Len(call.list)) = call.list
        /\ Registering = {} => middlewares = call.list

\* an execution that returned has entered no middleware that throws
C14_NoResult == Applied => \A k \in 1..Len(trace) : Returns(trace[k].fn)

\* C14: an exception thrown by a middleware during applyMiddlewares reaches
\* the caller of applyMiddlewares: no result is returned, no middleware is
\* invoked again, and the registered middleware list is left unchanged.
C14_MiddlewareThrows == [][C14_ThrowStep]_vars /\ [](C14_AfterThrow /\ C14_NoResult)

\* wrap, back, stop with initial data 1: stop returned to back, back threw,
\* and neither wrap's + 10 nor any value was returned.
C14_Witness ==
    /\ Idle
    /\ Applying
    /\ call.status = "threw"
    /\ call.error = "middleware error"
    /\ call.list = <<"wrap", "back", "stop">>
    /\ call.data = 1
    /\ TraceFns = <<"wrap", "back", "stop">>
    /\ call.result = Undefined
    /\ middlewares = call.list

\* the step is the throw statement of the hook body on top of the stack
HookThrows ==
    /\ Running("hookfn")
    /\ LET f == stack[Len(stack)]
       IN  f.pc <= Len(HookBody(f.fn)) /\ HookBody(f.fn)[f.pc].i = "throw"

\* the exception leaves map or reduce and the operation, which returns
\* nothing; the step invokes no hook and leaves the hook registry as it is
C15_ThrowStep ==
    HookThrows =>
        /\ stack' = <<>>
        /\ call'.status = "threw"
        /\ call'.error = HookBody(stack[Len(stack)].fn)[stack[Len(stack)].pc].s
        /\ call'.result = Undefined
        /\ trace' = trace
        /\ hooks' = hooks

\* a callHook or callHookSerial that ended with the exception of a hook: the
\* hook that threw is the last one invoked, the hooks before it returned,
\* and the bucket is the bucket of the call's start (with, behind it, what
\* hook bodies registered themselves)
C15_AfterThrow ==
    (/\ call.op \in {"callHook", "callHookSerial"}
     /\ call.status = "threw"
     /\ call.error = "hook error") =>
        /\ stack = <<>>
        /\ call.result = Undefined
        /\ Len(trace) \in 1..Len(call.list)
        /\ \A k \in 1..Len(trace) : trace[k].fn = call.list[k]
        /\ ~HookReturns(call.list[Len(trace)])
        /\ \A k \in 1..(Len(trace) - 1) : HookReturns(call.list[k])
        /\ Len(Bucket(State, call.name)) >= Len(call.list)
        /\ SubSeq(Bucket(State, call.name), 1, Len(call.list)) = call.list

\* the step ends a top-level call with an exception
Threw == call'.status = "threw" /\ call' # call

\* the step is a throw statement of user code, or a call by user code of
\* something that is not a function
UserCodeThrows ==
    \/ InstallThrows
    \/ MiddlewareThrows
    \/ HookThrows
    \/ /\ Running("install")
       /\ LET f == stack[Len(stack)]
              body == InstallBody(PluginById(f.plugin).install)
          IN  f.pc <= Len(body) /\ body[f.pc].i = "contextCall"

\* an operation ends with an exception only when user code throws
C15_CoreStep == Threw => UserCodeThrows

\* C15: an exception thrown by a hook during callHook or callHookSerial
\* reaches the caller of the operation as thrown: nothing is returned, the
\* hooks registered after the one that threw are not invoked in that call,
\* and the hook registry is left unchanged; the core itself throws only when
\* user code throws, never for a duplicate plugin or extension name.
C15_AsStated == [][C15_ThrowStep /\ C15_CoreStep]_vars /\ []C15_AfterThrow

\* callHookSerial('e', 0) with the hooks reg, boom: reg registered late and
\* returned, boom threw, late was never invoked and is still registered.
C15_Witness ==
    /\ Idle
    /\ call.op = "callHookSerial"
    /\ call.status = "threw"
    /\ call.error = "hook error"
    /\ call.list = <<"reg", "boom">>
    /\ Len(trace) = 2
    /\ hooks["e"] = <<"reg", "boom", "late">>

(***************************************************************************)
(* Claims about what an install body reaches through its context.          *)
(***************************************************************************)
\* the plugin whose install is context => context.hook('before', ...)
Logger == CHOOSE p \in Plugins : p.install = "contextHook"

\* C16: a plugin's install can register hooks through the context object it
\* receives, and what it registered is there as soon as use returns: after
\* use(logger), whose install calls context.hook('before', h), the call
\* callHookSerial('before', x) returns h(x).
C16_AsStated ==
    (/\ call.op = "use"
     /\ call.plugin = Logger.id
     /\ installs[Logger.id] = 1
     /\ call.status # "running") =>
        /\ call.status = "returned"
        /\ Bucket(State, "before") = <<"inc">>
        /\ \A x \in Data : Fold(Bucket(State, "before"), 1, x) = x + 1

\* What happens instead: use(logger) ends with a TypeError, the plugin is
\* registered and no hook is.
C16_Witness ==
    /\ Idle
    /\ call.op = "use"
    /\ call.plugin = Logger.id
    /\ call.status = "threw"
    /\ call.error = "TypeError"
    /\ plugins["logger"] = Logger
    /\ installs[Logger.id] = 1
    /\ "before" \notin DOMAIN hooks

(***************************************************************************)
(* Claims about registrations made while a hook call is in progress.       *)
(***************************************************************************)
CallingHooks == call.op \in {"callHook", "callHookSerial"}

\* the hooks invoked so far are the first ones of the bucket of the call's
\* start, in order: none that was registered since
C17_Invoked ==
    CallingHooks =>
        /\ Len(trace) <= Len(call.list)
        /\ \A k \in 1..Len(trace) : trace[k].ev = "hook" /\ trace[k].fn = call.list[k]

\* the result holds one value per hook of the call's start (callHook), or
\* is the value of the last of them (callHookSerial)
C17_Result ==
    (CallingHooks /\ call.status = "returned") =>
        /\ Len(trace) = Len(call.list)
        /\ call.op = "callHook" =>
              /\ call.result.kind = "list"
              /\ Len(call.result.list) = Len(call.list)
              /\ \A k \in 1..Len(call.list) :
                    call.result.list[k] = HookValue(call.list[k], call.args[1])
        /\ call.op = "callHookSerial" =>
              call.result = Val(Fold(call.list, Len(call.list), call.data))

\* a hook body registers by appending: while a call is in progress the
\* bucket of its name keeps the bucket of the call's start as its first part
C17_Appended ==
    CallingHooks =>
        /\ Len(Bucket(State, call.name)) >= Len(call.list)
        /\ SubSeq(Bucket(State, call.name), 1, Len(call.list)) = call.list

\* a call started afterwards runs over the bucket as it is then
C17_StartStep ==
    (Idle /\ call'.op \in {"callHook", "callHookSerial"}) =>
        call'.list = (IF call'.name \in DOMAIN hooks THEN hooks[call'.name] ELSE <<>>)

\* C17: a callHook or callHookSerial execution runs over the hook list of
\* its name as it was when the call started: a hook that a hook body
\* registers under that name during the call is not invoked in the call and
\* adds nothing to its result; it is invoked by the calls started later.
C17_HookSnapshot ==
    /\ [](C17_Invoked /\ C17_Result /\ C17_Appended)
    /\ [][C17_StartStep]_vars

\* callHook('e', 1) with the hooks inc, reg: reg registered late under 'e'
\* during the call; late was not invoked and the result has two values.
C17_Witness ==
    /\ Idle
    /\ call.op = "callHook"
    /\ call.status = "returned"
    /\ call.name = "e"
    /\ call.args = <<1>>
    /\ call.list = <<"inc", "reg">>
    /\ hooks["e"] = <<"inc", "reg", "late">>
    /\ TraceFns = <<"inc", "reg">>
    /\ call.result = List(<<2, 1>>)

(***************************************************************************)
(* Claims about getPlugin, about the growth of the registries and about    *)
(* what extend leaves alone.                                               *)
(***************************************************************************)
\* the step is a call getPlugin(name) from the top level
GetPluginCalled(name) == Idle /\ call'.op = "getPlugin" /\ call'.name = name

\* the four fields and the extension slots are what they were
ContextUnchanged ==
    /\ plugins' = plugins
    /\ middlewares' = middlewares
    /\ hooks' = hooks
    /\ options' = options
    /\ slots' = slots

C18_Step ==
    \A name \in PluginNames \cup {"zz"} :
        GetPluginCalled(name) =>
            /\ call'.status = "returned"
            /\ call'.result = (IF name \in DOMAIN plugins THEN PluginRef(plugins[name])
                               ELSE Undefined)
            /\ installs' = installs
            /\ trace' = <<>>
            /\ stack' = <<>>
            /\ ContextUnchanged

\* C18: getPlugin(name) returns the plugin registered under name, or
\* undefined when none ever was; it never throws, never invokes install and
\* leaves the context unchanged.
C18_AsStated == [][C18_Step]_vars

\* getPlugin('d') has returned plugin 5, whose install had thrown.
C18_Witness ==
    /\ Idle
    /\ call.op = "getPlugin"
    /\ call.name = "d"
    /\ call.status = "returned"
    /\ call.result = PluginRef(PluginById(5))
    /\ installs[5] = 1

\* a is the first part of b
IsPrefix(a, b) == Len(a) <= Len(b) /\ SubSeq(b, 1, Len(a)) = a

\* every registry holds after the step what it held before, in the same
\* places
C19_GrowStep ==
    /\ \A name \in DOMAIN plugins : name \in DOMAIN plugins' /\ plugins'[name] = plugins[name]
    /\ IsPrefix(middlewares, middlewares')
    /\ \A name \in DOMAIN hooks : name \in DOMAIN hooks' /\ IsPrefix(hooks[name], hooks'[name])

\* the instruction the user function on top of the stack is about to run
\* registers something
Registers ==
    /\ stack # <<>>
    /\ LET f == stack[Len(stack)]
           body == CASE f.op = "install" -> InstallBody(PluginById(f.plugin).install)
                     [] f.op = "middleware" -> MiddlewareBody(f.fn)
                     [] f.op = "hookfn" -> HookBody(f.fn)
                     [] OTHER -> <<>>
       IN  /\ f.pc <= Len(body)
           /\ body[f.pc].i \in {"use", "useSelf", "useMiddleware", "useMiddlewareOnce",
                                 "hookOnce"}

\* a registry changes only in a use, useMiddleware or hook call: made from
\* the top level or by a user function.  The steps of applyMiddlewares,
\* callHook, callHookSerial and getPlugin themselves change none.
C19_ReadStep ==
    (~ (Idle /\ call'.op \in {"use", "useMiddleware", "hook"}) /\ ~Registers) =>
        /\ plugins' = plugins
        /\ middlewares' = middlewares
        /\ hooks' = hooks

\* C19: over any sequence of use, useMiddleware, hook, applyMiddlewares,
\* callHook, callHookSerial and getPlugin calls the registries only grow: a
\* registered name keeps its plugin, the middleware list and every hook
\* bucket keep what they held as their first part; applyMiddlewares,
\* callHook, callHookSerial and getPlugin themselves add and remove nothing.
C19_RegistriesGrow == [][C19_GrowStep /\ C19_ReadStep]_vars

\* An applyMiddlewares execution has ended during which a middleware
\* registered another; before it two plugins were registered, one of whose
\* installs registered a middleware, and a hook registered another hook.
C19_Witness ==
    /\ Idle
    /\ call.op = "applyMiddlewares"
    /\ call.status = "returned"
    /\ call.list = <<"reg", "pass">>
    /\ middlewares = <<"reg", "pass", "late">>
    /\ DOMAIN plugins = {"a", "d"}
    /\ plugins["a"].id = 2
    /\ "e" \in DOMAIN hooks
    /\ hooks["e"] = <<"reg", "late">>

\* the state s with no call in progress, about to be handed a call
Probe(s) == [s EXCEPT !.call = Call("probe", 0, "", 0, <<>>, <<>>), !.trace = <<>>]

\* how a call ends, or where it stands once control is with user code
Observed(s) == [status |-> s.call.status, result |-> s.call.result,
                error |-> s.call.error, stack |-> s.stack, trace |-> s.trace]

\* what getPlugin, applyMiddlewares, callHook and callHookSerial do when
\* called in state s
Behaviour(s) ==
    [getPlugin |-> [name \in PluginNames |-> Observed(getPlugin(Probe(s), name))],
     applyMiddlewares |-> [x \in Data |-> Observed(applyMiddlewares(Probe(s), x))],
     callHook |-> [name \in HookNames |-> Observed(callHook(Probe(s), name, <<0>>))],
     callHookSerial |-> [name \in HookNames |->
                            Observed(callHookSerial(Probe(s), name, 0))]]

\* context.plugins, context.middlewares, context.hooks and context.options
\* read after the step as they did before it
C20_FieldsStep == \A key \in ReservedKeys : ContextGet(slots', key) = ContextGet(slots, key)

C20_Step ==
    \A name \in {"log"} \cup ReservedKeys :
        (Idle /\ call'.op = "extend" /\ call'.name = name) =>
            /\ plugins' = plugins
            /\ middlewares' = middlewares
            /\ hooks' = hooks
            /\ options' = options
            /\ C20_FieldsStep
            /\ \A other \in ({"log"} \cup ReservedKeys) \ {name} :
                  ContextGet(slots', other) = ContextGet(slots, other)
            /\ Behaviour(State') = Behaviour(State)

\* C20: extend(name, value) changes only the extension slot name: the plugin
\* registry, the middleware list, the hook registry and the options are the
\* same after the call as before it, and getPlugin, applyMiddlewares,
\* callHook and callHookSerial behave after it as they did before.
C20_AsStated == [][C20_Step]_vars

\* The same for the names that are not fields of the context: this part of
\* C20 holds.
C20_NewNames ==
    [][\A name \in {"log"} :
           (Idle /\ call'.op = "extend" /\ call'.name = name) =>
               /\ plugins' = plugins
               /\ middlewares' = middlewares
               /\ hooks' = hooks
               /\ options' = options
               /\ C20_FieldsStep
               /\ Behaviour(State') = Behaviour(State)]_vars

\* What happens instead: after extend('hooks', 0), with a hook registered,
\* callHook ends with a TypeError.
C20_Witness ==
    /\ Idle
    /\ call.op = "callHook"
    /\ call.status = "threw"
    /\ call.error = "TypeError"
    /\ "hooks" \in DOMAIN slots
    /\ Bucket(State, "e") # <<>>

(***************************************************************************)
(* Claims about termination.                                               *)
(***************************************************************************)
Executing ==
    /\ call.op \in {"applyMiddlewares", "callHook", "callHookSerial"}
    /\ call.status = "running"

Finished ==
    /\ stack = <<>>
    /\ call.status \in {"returned", "threw"}

\* C21: every applyMiddlewares, callHook and callHookSerial call finishes
\* (returns or throws) when each user function terminates and each
\* middleware calls its continuation a bounded number of times, also when
\* middleware or hook bodies register further middlewares or hooks during
\* the execution.
C21_Finishes == Executing ~> Finished

\* applyMiddlewares(0) over twice, reg has returned: reg ran twice and
\* registered late, which was not entered.
C21_Witness ==
    /\ Idle
    /\ Applied
    /\ call.list = <<"twice", "reg">>
    /\ middlewares = <<"twice", "reg", "late">>
    /\ TraceFns = <<"twice", "reg", "reg">>
    /\ call.result = Val(1)

(***************************************************************************)
(* Claims about re-entrant calls.                                          *)
(***************************************************************************)
\* while the install of p is running p is registered, getPlugin(p.name)
\* returns p, and no second install of p is in progress
C27_WhileInstalling ==
    \A i \in 1..Len(stack) :
        stack[i].op = "install" =>
            LET p == PluginById(stack[i].plugin)
            IN  /\ p.name \in DOMAIN plugins
                /\ plugins[p.name] = p
                /\ getPlugin(State, p.name).ret = PluginRef(p)
                /\ installs[p.id] = 1
                /\ \A j \in 1..Len(stack) :
                      (stack[j].op = "install" /\ stack[j].plugin = p.id) => j = i

\* a use, made by the install body of p, of a plugin with p's name warns and
\* returns to the body without entering an install
C27_ReentrantStep ==
    \A q \in Plugins :
        (NestedUse(q, <<>>) /\ q.name = PluginById(stack[Len(stack)].plugin).name) =>
            /\ installs' = installs
            /\ trace' = trace
            /\ plugins' = plugins
            /\ console' = Append(console, <<"Plugin is already registered", q.name>>)
            /\ ret' = This
            /\ CallerResumed

\* C27: use records the plugin before it invokes install: while p.install is
\* running getPlugin(p.name) returns p, and a use of a plugin with the same
\* name made from inside install is rejected as a duplicate, so install
\* cannot recurse into itself through use.
C27_RegisteredBeforeInstall == []C27_WhileInstalling /\ [][C27_ReentrantStep]_vars

\* The install of plugin 3 has called use with plugin 3 itself and is still
\* running: the call warned and entered no install.
C27_Witness ==
    /\ Running("install")
    /\ stack[Len(stack)].plugin = 3
    /\ stack[Len(stack)].pc = 2
    /\ Len(stack) = 2
    /\ installs[3] = 1
    /\ console = << <<"Plugin is already registered", "b">> >>
    /\ ret = This

(***************************************************************************)
(* Claims about how often dispatch invokes a middleware.                   *)
(***************************************************************************)
\* how often the body of a middleware calls its continuation
NextCalls(kind) ==
    Cardinality({i \in 1..Len(MiddlewareBody(kind)) : MiddlewareBody(kind)[i].i = "next"})

\* the invocations, so far, of the middleware at (0-based) index j
EnteredAt(j) == {k \in 1..Len(trace) : trace[k].idx = j}

RECURSIVE SumNextCalls(_)
SumNextCalls(ks) ==
    IF ks = {} THEN 0
    ELSE LET k == CHOOSE x \in ks : TRUE
         IN  NextCalls(trace[k].fn) + SumNextCalls(ks \ {k})

\* the step is a call of its continuation by the middleware on top of the
\* stack
CallsContinuation ==
    /\ Running("middleware")
    /\ LET f == stack[Len(stack)]
       IN  f.pc <= Len(MiddlewareBody(f.fn)) /\ MiddlewareBody(f.fn)[f.pc].i = "next"

\* a call by m_i of its continuation invokes m_(i+1) once, with the value
\* passed, or, from the last middleware, invokes nothing; applyMiddlewares
\* invokes m_1 once with the initial data; no other step invokes anything
C28_Step ==
    /\ CallsContinuation =>
          LET f == stack[Len(stack)]
              passed == f.data + MiddlewareBody(f.fn)[f.pc].n
          IN  IF f.idx + 1 < Len(call.list)
              THEN trace' = Append(trace, Event("middleware", 0, call.list[f.idx + 2],
                                                f.idx + 1, passed, <<>>))
              ELSE trace' = trace
    /\ (Idle /\ Applying') =>
          trace' = (IF call'.list = <<>> THEN <<>>
                    ELSE <<Event("middleware", 0, call'.list[1], 0, call'.data, <<>>)>>)
    /\ (~CallsContinuation /\ ~Idle) => trace' = trace

\* in a finished execution m_1 was invoked once and m_(i+1) as often as the
\* invocations of m_i called their continuations
C28_Counts ==
    (Applied /\ call.list # <<>>) =>
        /\ Cardinality(EnteredAt(0)) = 1
        /\ \A j \in 0..(Len(call.list) - 2) :
              Cardinality(EnteredAt(j + 1)) = SumNextCalls(EnteredAt(j))

\* if every middleware calls its continuation at most once, every
\* middleware is invoked at most once
C28_AtMostOnce ==
    (Applying /\ \A i \in 1..Len(call.list) : NextCalls(call.list[i]) <= 1) =>
        \A j \in 0..(Len(call.list) - 1) : Cardinality(EnteredAt(j)) <= 1

\* C28: within one applyMiddlewares execution m_1 is invoked exactly once
\* and each m_(i+1) of the snapshot exactly once per call that m_i makes to
\* its continuation, with the value passed in that call; if every
\* middleware calls its continuation at most once every middleware is
\* invoked at most once, and a middleware that calls it k times makes the
\* rest of the chain run k times.
C28_DispatchCounts == [][C28_Step]_vars /\ [](C28_Counts /\ C28_AtMostOnce)

\* twice, inc, pass with initial data 0: twice called its continuation with
\* 0 and with 1, and inc and pass each ran twice.
C28_Witness ==
    /\ Applied
    /\ call.list = <<"twice", "inc", "pass">>
    /\ call.data = 0
    /\ TraceFns = <<"twice", "inc", "pass", "inc", "pass">>
    /\ [k \in 1..Len(trace) |-> trace[k].data] = <<0, 0, 1, 1, 2>>
    /\ call.result = Val(2)

(***************************************************************************)
(* C22: retry.                                                             *)
(***************************************************************************)
\* what n+1 attempts at most, stopping at the first success, come to
Expected(r) ==
    LET successes == {k \in 1..(r.retries + 1) : r.plan[k] = "resolve"}
    IN  IF successes = {}
        THEN [outcome |-> Rejected(r.retries + 1), invocations |-> r.retries + 1]
        ELSE LET first == CHOOSE k \in successes : \A j \in successes : k <= j
             IN  [outcome |-> Resolved(first), invocations |-> first]

\* the function retry returns: fn is invoked at most retries + 1 times, and
\* once its promise has settled it has the expected outcome after the
\* expected number of invocations
C22_Returned ==
    /\ retrier.invocations <= retrier.retries + 1
    /\ retrier.settled # Pending =>
          /\ retrier.settled = Expected(retrier).outcome
          /\ retrier.invocations = Expected(retrier).invocations

\* C22: retry(fn, {retries: n}) invokes fn at most n+1 times, resolves with
\* the first success after exactly that many invocations, rejects with the
\* last error when all n+1 attempts fail, and awaiting the value retry
\* returns yields that outcome
C22_AsStated ==
    /\ C22_Returned
    /\ retrier.awaited # Pending =>
          /\ retrier.awaited = Expected(retrier).outcome
          /\ retrier.invocations = Expected(retrier).invocations

(***************************************************************************)
(* C23: debounce.                                                          *)
(***************************************************************************)
DLog == debouncer.log

DCalls == {i \in 1..Len(DLog) : DLog[i].kind = "call"}

DRuns == {i \in 1..Len(DLog) : DLog[i].kind = "run"}

\* the call of the wrapper that follows call i, 0 when there is none
NextCallAfter(i) ==
    LET later == {j \in DCalls : j > i}
    IN  IF later = {} THEN 0 ELSE CHOOSE j \in later : \A k \in later : j <= k

\* fn is never executed while fewer than wait have passed since the most
\* recent call of the wrapper
C23_NeverEarly ==
    \A r \in DRuns : \A c \in DCalls :
        c < r => DLog[r].at - DLog[c].at >= debouncer.wait

\* call i ends a burst: the next call, if any, is wait or more after it
EndsBurst(i) ==
    \/ NextCallAfter(i) = 0
    \/ DLog[NextCallAfter(i)].at - DLog[i].at >= debouncer.wait

\* call i is followed by no call before its timer has fired
EndsRun(i) ==
    \/ NextCallAfter(i) = 0
    \/ \E r \in DRuns : i < r /\ r < NextCallAfter(i)

\* the executions caused by the calls ending at call i: those wait after
\* it, before the next call
RunsFor(i) ==
    {r \in DRuns : /\ r > i
                   /\ NextCallAfter(i) = 0 \/ r < NextCallAfter(i)
                   /\ DLog[r].at = DLog[i].at + debouncer.wait}

\* exactly one execution for each group of calls that ends at a call e(i),
\* wait after it and with its arguments, and no other execution
OnePerGroup(e(_)) ==
    /\ \A i \in DCalls :
          e(i) /\ now > DLog[i].at + debouncer.wait =>
             /\ Cardinality(RunsFor(i)) = 1
             /\ \A r \in RunsFor(i) : DLog[r].args = DLog[i].args
    /\ \A r \in DRuns : \E i \in DCalls : e(i) /\ r \in RunsFor(i)

\* C23 as stated: fn is never executed while fewer than wait have passed
\* since the most recent call, and every burst of calls less than wait apart
\* causes exactly one execution, wait after its last call, with that call's
\* arguments
C23_AsStated == C23_NeverEarly /\ OnePerGroup(EndsBurst)

\* C23, amended: fn is never executed while fewer than wait have passed since
\* the most recent call; every run of calls each made before the timer of
\* the one before has fired causes exactly one execution, wait after its
\* last call and with that call's arguments; and calls less than wait apart
\* always belong to one such run
C23_Debounced ==
    /\ C23_NeverEarly
    /\ OnePerGroup(EndsRun)
    /\ \A i \in DCalls : EndsRun(i) => EndsBurst(i)

\* two calls less than wait apart, and the one execution they caused
C23_Witness ==
    /\ Len(DLog) = 3
    /\ DLog[1].kind = "call" /\ DLog[2].kind = "call" /\ DLog[3].kind = "run"
    /\ DLog[2].at - DLog[1].at < debouncer.wait
    /\ DLog[2].at > DLog[1].at
    /\ DLog[3].at = DLog[2].at + debouncer.wait
    /\ DLog[3].args = DLog[2].args
    /\ now > DLog[3].at

(***************************************************************************)
(* C24: throttle.                                                          *)
(***************************************************************************)
TLog == throttler.log

TCalls == {i \in 1..Len(TLog) : TLog[i].kind = "call"}

TRuns == {i \in 1..Len(TLog) : TLog[i].kind = "run"}

\* call c executed fn at the time it was made
Immediate(c) ==
    /\ c + 1 \in TRuns
    /\ TLog[c + 1].at = TLog[c].at
    /\ TLog[c + 1].args = TLog[c].args

\* call c was made less than wait after the execution r
Within(c, r) == r < c /\ TLog[c].at - TLog[r].at < throttler.wait

\* the first call executes fn immediately
FirstImmediate == TLog # <<>> => Immediate(1)

\* a call made less than wait after an execution does not execute fn then
Suppressed == \A c \in TCalls : \A r \in TRuns : Within(c, r) => ~Immediate(c)

\* when calls were made less than wait after an execution, fn executes
\* exactly once more once wait has passed since that execution
Trailing ==
    \A r \in TRuns :
        (\E c \in TCalls : Within(c, r)) /\ now > TLog[r].at + throttler.wait =>
            Cardinality({x \in TRuns : TLog[x].at = TLog[r].at + throttler.wait}) = 1

\* fn runs at most once per wait window
OncePerWindow ==
    \A r \in TRuns : \A x \in TRuns :
        r < x => TLog[x].at - TLog[r].at >= throttler.wait

ThrottledAsStated == FirstImmediate /\ Suppressed /\ Trailing /\ OncePerWindow

\* C24 as stated, of misc throttle: the first call executes fn immediately,
\* calls made less than wait after an execution do not execute fn when they
\* are made, after such calls fn executes exactly once more once wait has
\* elapsed, and fn runs at most once per wait window
C24_AsStated == throttler.from = "misc" => ThrottledAsStated

\* misc throttle but for the execution after the window
C24_Leading ==
    throttler.from = "misc" => FirstImmediate /\ Suppressed /\ OncePerWindow

\* the throttle of the performance module
C24_Performance == throttler.from = "performance" => ThrottledAsStated

(***************************************************************************)
(* C25: memoize.                                                           *)
(***************************************************************************)
\* how often fn has been invoked with an argument list satisfying same(_)
Invocations(same(_)) ==
    Cardinality({i \in 1..Len(memo.invoked) : same(memo.invoked[i])})

\* C25 as stated: fn is invoked exactly once for each distinct argument
\* list the wrapper has been called with, and every call returns the value
\* fn returns for its argument list
C25_AsStated ==
    \A i \in 1..Len(memo.calls) :
        LET args == memo.calls[i].args
            Same(a) == a = args
        IN  /\ Invocations(Same) = 1
            /\ memo.calls[i].returned = MemoFn(args)

\* what the cache does tell apart: fn is invoked exactly once for each
\* distinct JSON text of an argument list, with the first list that has the
\* text, and every call returns the value fn returned for that first list
C25_ByText ==
    \A i \in 1..Len(memo.calls) :
        LET args == memo.calls[i].args
            SameText(a) == JSONStringify(a) = JSONStringify(args)
            first == CHOOSE j \in 1..i :
                        /\ SameText(memo.calls[j].args)
                        /\ \A k \in 1..(j - 1) : ~SameText(memo.calls[k].args)
        IN  /\ Invocations(SameText) = 1
            /\ memo.calls[i].returned = MemoFn(memo.calls[first].args)

(***************************************************************************)
(* C26: computed.                                                          *)
(***************************************************************************)
CReads == computedRef.reads

\* C26 as stated: every read of c.value returns what the getter returns on
\* the state current at the time of the read
C26_AsStated ==
    \A i \in 1..Len(CReads) : CReads[i].returned = CReads[i].count * 2

\* every read of c.value returns what the getter returned at the first read
C26_FirstRead ==
    \A i \in 1..Len(CReads) : CReads[i].returned = CReads[1].count * 2

(***************************************************************************)
(* C29: emit invokes the callbacks subscribed when it started.             *)
(***************************************************************************)
\* C29: an emit invokes exactly the callbacks subscribed to the event when
\* the emit started, once per subscription and in subscription order,
\* whatever on and off calls the invoked callbacks make: while it runs it
\* has invoked a prefix of them, and when it has returned all of them
C29_EmitSnapshot ==
    /\ IsPrefix(bus.emitted.invoked, bus.emitted.atStart)
    /\ bus.frame.active => Len(bus.emitted.invoked) < Len(bus.emitted.atStart)
    /\ ~bus.frame.active => bus.emitted.invoked = bus.emitted.atStart

\* an emit has returned in which the remover unsubscribed plain before
\* plain's turn: plain was invoked all the same, and is subscribed no more
C29_Witness ==
    /\ ~bus.frame.active
    /\ bus.emitted.event = "change"
    /\ bus.emitted.atStart = <<2, 1>>
    /\ bus.emitted.invoked = <<2, 1>>
    /\ Subscribed(bus, "change") = <<2>>

(***************************************************************************)
(* C30: off and the unsubscribe functions.                                 *)
(***************************************************************************)
\* no callback an emit invokes had been unsubscribed from the event, and
\* not subscribed again, when the emit started
C30_NotInvoked ==
    /\ \A i \in 1..Len(bus.emitted.invoked) : \A r \in bus.emitted.removedAtStart :
          ~(r[1] = bus.emitted.event /\ r[2] = bus.emitted.invoked[i])
    /\ \A r \in bus.removed : r[2] \notin Range(Subscribed(bus, r[1]))

\* seq without callback, the rest in order
Others(seq, callback) == SelectSeq(seq, LAMBDA cb : cb # callback)

\* since the latest off(event, callback), with no on after it: callback has
\* no subscription to event, every other subscription is where it was, and
\* nothing has changed if event or callback was unknown
C30_OthersKept ==
    bus.lastOff.event # "" =>
        LET event == bus.lastOff.event
            callback == bus.lastOff.callback
            before == bus.lastOff.before
        IN  /\ DOMAIN Subscriptions(bus) = DOMAIN before
            /\ callback \notin Range(Subscribed(bus, event))
            /\ \A e \in DOMAIN before :
                  Subscribed(bus, e) = IF e = event THEN Others(before[e], callback)
                                                   ELSE before[e]
            /\ event \notin DOMAIN before \/ callback \notin Range(before[event]) =>
                  Subscriptions(bus) = before

\* C30: after off(event, cb), or the call of an unsubscribe function for
\* them, no later emit of event invokes cb until cb is subscribed to it
\* again, however often cb had been subscribed; the subscriptions of other
\* callbacks and to other events keep their order; off for an unknown event
\* or callback changes nothing
C30_Unsubscribed == C30_NotInvoked /\ C30_OthersKept

\* plain was subscribed twice to 'change', one off removed both, and a later
\* emit of 'change' has invoked the other callbacks only
C30_Witness ==
    /\ ~bus.frame.active
    /\ bus.emitted.event = "change"
    /\ <<"change", 1, 2>> \in bus.emitted.removedAtStart
    /\ bus.emitted.invoked # <<>>

====
